---- MODULE Spec2Model ----
(***************************************************************************)
(* A model of the GitHub MCP server (shuakami/mcp-github): the response    *)
(* cleaner cleanGitHubResponse, the formatter formatForHumans and the      *)
(* registered tool handlers, as found in the TypeScript source embedded in *)
(* src/README.md (lines 228-2707).                                         *)
(*                                                                         *)
(* Strings are sequences of atoms.  A data string (a body, a login, a sha) *)
(* is a sequence of one-character atoms, so that length and substring are  *)
(* those of the code.  The fixed parts of a template literal are single    *)
(* atoms; the source's Chinese literals are written as ASCII glosses, the  *)
(* original text being given in the comment next to each.                  *)
(***************************************************************************)
EXTENDS Integers, Sequences, FiniteSets, TLC

(***************************************************************************)
(* JavaScript values                                                       *)
(***************************************************************************)
Undef == [t |-> "undefined", v |-> 0]
Null == [t |-> "null", v |-> 0]
Bool(b) == [t |-> "boolean", v |-> b]
Num(n) == [t |-> "number", v |-> n]
Str(s) == [t |-> "string", v |-> s]
Obj(f) == [t |-> "object", v |-> f]
Arr(s) == [t |-> "array", v |-> s]

EmptyFields == [k \in {} |-> Undef]

Range(s) == {s[i] : i \in DOMAIN s}

\* x == null || x === undefined: reading a property of such a value raises TypeError
Nullish(x) == x.t \in {"undefined", "null"}

\* Array.isArray(x)
IsArray(x) == x.t = "array"

\* typeof x === 'object' (true of null, of arrays and of objects)
TypeofObject(x) == x.t \in {"object", "array", "null"}

\* o[k] / o.k for a value that is not null or undefined
Get(o, k) == IF o.t = "object" /\ k \in DOMAIN o.v THEN o.v[k] ELSE Undef

\* o.k = x on an object
Put(o, k, x) == Obj([f \in (DOMAIN o.v) \cup {k} |-> IF f = k THEN x ELSE o.v[f]])

\* the keys of an object (those assigned undefined included)
Keys(o) == IF o.t = "object" THEN DOMAIN o.v ELSE {}

\* JavaScript truthiness, as tested by if (x), x && y, x || y
Truthy(x) ==
    CASE x.t = "undefined" -> FALSE
      [] x.t = "null" -> FALSE
      [] x.t = "boolean" -> x.v
      [] x.t = "number" -> x.v # 0
      [] x.t = "string" -> x.v # <<>>
      [] OTHER -> TRUE

\* a || b
OrElse(a, b) == IF Truthy(a) THEN a ELSE b

\* s.substring(0, n)
Substring0(s, n) == SubSeq(s, 1, IF n < Len(s) THEN n ELSE Len(s))

Digit == <<"0", "1", "2", "3", "4", "5", "6", "7", "8", "9">>

RECURSIVE NumStr(_)
\* String(n) for an integer n
NumStr(n) ==
    IF n < 0 THEN <<"-">> \o NumStr(0 - n)
    ELSE IF n < 10 THEN <<Digit[n + 1]>>
    ELSE NumStr(n \div 10) \o <<Digit[(n % 10) + 1]>>

RECURSIVE ToStr(_)
RECURSIVE JoinStr(_, _)
\* arr.join(sep): null and undefined elements give the empty string
JoinStr(s, sep) ==
    IF s = <<>> THEN <<>>
    ELSE (IF Nullish(Head(s)) THEN <<>> ELSE ToStr(Head(s)))
         \o (IF Len(s) > 1 THEN sep \o JoinStr(Tail(s), sep) ELSE <<>>)

\* the string a value becomes inside a template literal `${x}`
ToStr(x) ==
    CASE x.t = "string" -> x.v
      [] x.t = "number" -> NumStr(x.v)
      [] x.t = "boolean" -> IF x.v THEN <<"true">> ELSE <<"false">>
      [] x.t = "undefined" -> <<"undefined">>
      [] x.t = "null" -> <<"null">>
      [] x.t = "array" -> JoinStr(x.v, <<",">>)
      [] OTHER -> <<"[object Object]">>

(***************************************************************************)
(* Completions.  A cell is what an expression evaluating to an object      *)
(* yields: either an exception, or a value together with the object it is: *)
(* "fresh" for an object the callee created, "arg" for the very object it  *)
(* was given.                                                              *)
(***************************************************************************)
Threw == [thrown |-> TRUE, ref |-> "none", val |-> Undef]
Fresh(x) == [thrown |-> FALSE, ref |-> "fresh", val |-> x]
Alias(x) == [thrown |-> FALSE, ref |-> "arg", val |-> x]

(***************************************************************************)
(* cleanGitHubResponse                                                     *)
(***************************************************************************)
TruncLimit == 300
ShaLen == 7
Ellipsis == <<".", ".", ".">>

keysToKeep ==
    <<"id", "name", "login", "full_name", "html_url", "description", "private",
      "created_at", "updated_at", "pushed_at", "language", "default_branch",
      "number", "title", "state", "body", "sha", "protected", "protection",
      "commit", "tag_name", "target_commitish", "prerelease", "draft",
      "assets_url", "upload_url", "published_at">>

\* the value the generic step stores for obj[key]: long body/description cut
KeptValue(obj, key) ==
    LET x == Get(obj, key)
    IN IF x.t = "string" /\ Len(x.v) > TruncLimit /\ key \in {"body", "description"}
       THEN Str(Substring0(x.v, TruncLimit) \o Ellipsis)
       ELSE x

\* a slip that accepts an owner or user object without looking for its login
HasLoginUnchecked(x) == Truthy(x) /\ TypeofObject(x)

\* obj.owner && typeof obj.owner === 'object' && obj.owner.login
HasLogin(x) == Truthy(x) /\ TypeofObject(x) /\ Truthy(Get(x, "login"))

\* a slip that starts the result from a copy of the input ({...obj})
GenericFieldsSpread(obj) ==
    LET all == {k \in Keys(obj) \cup Range(keysToKeep) : Get(obj, k) # Undef}
    IN Obj([k \in all |-> Get(obj, k)])

\* the fields the generic step gives its result
GenericFields(obj) ==
    LET kept == {k \in Range(keysToKeep) : Get(obj, k) # Undef}
        r0 == Obj([k \in kept |-> KeptValue(obj, k)])
        r1 == IF HasLogin(Get(obj, "owner"))
              THEN Put(r0, "owner", Get(Get(obj, "owner"), "login")) ELSE r0
    IN IF HasLogin(Get(obj, "user"))
       THEN Put(r1, "user", Get(Get(obj, "user"), "login")) ELSE r1

\* a slip that builds the result in the argument itself (const result = obj)
removeExcessiveFieldsInPlace(obj) ==
    IF Nullish(obj) THEN Threw
    ELSE LET g == GenericFields(obj)
             base == IF obj.t = "object" THEN obj ELSE Obj(EmptyFields)
         IN Alias(Obj([k \in Keys(base) \cup Keys(g) |->
                        IF k \in Keys(g) THEN g.v[k] ELSE base.v[k]]))

removeExcessiveFields(obj) ==
    IF Nullish(obj) THEN Threw ELSE Fresh(GenericFields(obj))

\* c.val.k = x when cond, on the object the cell holds
Assign(c, k, x) == [c EXCEPT !.val = Put(c.val, k, x)]
AssignIf(cond, c, k, x) == IF cond THEN Assign(c, k, x) ELSE c

\* x && x.k, for a guard such as  branch.commit && branch.commit.sha
AndGet(x, k) == IF Truthy(x) THEN Get(x, k) ELSE x

cleanBranch(branch) ==
    LET c0 == removeExcessiveFields(branch)
    IN IF c0.thrown THEN Threw
       ELSE LET c1 == Assign(c0, "name", Get(branch, "name"))
                c2 == Assign(c1, "protected", Get(branch, "protected"))
                c3 == AssignIf(Truthy(AndGet(Get(branch, "commit"), "sha")), c2,
                               "commit_sha", Get(Get(branch, "commit"), "sha"))
            IN IF Truthy(Get(branch, "protection"))
               THEN Assign(Assign(c3, "protection_enabled", Bool(TRUE)),
                           "protection_details", Get(branch, "protection"))
               ELSE c3

cleanRepository(repo) ==
    LET c0 == removeExcessiveFields(repo)
    IN IF c0.thrown THEN Threw
       ELSE LET c1 == Assign(c0, "html_url",
                             OrElse(Get(repo, "html_url"), Get(c0.val, "html_url")))
                c2 == Assign(c1, "updated_at",
                             OrElse(Get(repo, "updated_at"), Get(c1.val, "updated_at")))
                c3 == AssignIf(Truthy(Get(repo, "topics")), c2, "topics", Get(repo, "topics"))
                c4 == AssignIf(Get(repo, "open_issues_count") # Undef, c3,
                               "open_issues_count", Get(repo, "open_issues_count"))
                c5 == AssignIf(Truthy(Get(repo, "clone_url")), c4,
                               "clone_url", Get(repo, "clone_url"))
                c6 == AssignIf(Get(repo, "stargazers_count") # Undef, c5,
                               "stars", Get(repo, "stargazers_count"))
            IN AssignIf(Truthy(Get(repo, "visibility")), c6,
                        "visibility", Get(repo, "visibility"))

\* a slip that reads pr.head.ref and pr.base.ref without testing pr.head and pr.base
cleanPullRequestUnguarded(pr) ==
    LET c0 == removeExcessiveFields(pr)
    IN IF c0.thrown \/ Nullish(Get(pr, "head")) \/ Nullish(Get(pr, "base")) THEN Threw
       ELSE LET c1 == AssignIf(Truthy(Get(pr, "merged_at")), c0,
                               "merged_at", Get(pr, "merged_at"))
                c2 == AssignIf(Truthy(Get(Get(pr, "head"), "ref")), c1,
                               "head_branch", Get(Get(pr, "head"), "ref"))
                c3 == AssignIf(Truthy(Get(Get(pr, "base"), "ref")), c2,
                               "base_branch", Get(Get(pr, "base"), "ref"))
            IN AssignIf(Get(pr, "merged") # Undef, c3, "merged", Get(pr, "merged"))

cleanPullRequest(pr) ==
    LET c0 == removeExcessiveFields(pr)
    IN IF c0.thrown THEN Threw
       ELSE LET c1 == AssignIf(Truthy(Get(pr, "merged_at")), c0,
                               "merged_at", Get(pr, "merged_at"))
                c2 == AssignIf(Truthy(AndGet(Get(pr, "head"), "ref")), c1,
                               "head_branch", Get(Get(pr, "head"), "ref"))
                c3 == AssignIf(Truthy(AndGet(Get(pr, "base"), "ref")), c2,
                               "base_branch", Get(Get(pr, "base"), "ref"))
            IN AssignIf(Get(pr, "merged") # Undef, c3, "merged", Get(pr, "merged"))

\* list.map(e => typeof e === 'string' ? e : e[k]) when list is an array, else list
FlattenNames(list, k) ==
    IF ~IsArray(list) THEN Fresh(list)
    ELSE IF \E i \in DOMAIN list.v : Nullish(list.v[i]) THEN Threw
    ELSE Fresh(Arr([i \in DOMAIN list.v |->
                      IF list.v[i].t = "string" THEN list.v[i] ELSE Get(list.v[i], k)]))

cleanIssue(issue) ==
    LET c0 == removeExcessiveFields(issue)
    IN IF c0.thrown THEN Threw
       ELSE LET c1 == AssignIf(Truthy(Get(issue, "closed_at")), c0,
                               "closed_at", Get(issue, "closed_at"))
                labels == FlattenNames(Get(issue, "labels"), "name")
                assignees == FlattenNames(Get(issue, "assignees"), "login")
            IN IF Truthy(Get(issue, "labels")) /\ labels.thrown THEN Threw
               ELSE LET c2 == AssignIf(Truthy(Get(issue, "labels")), c1, "labels", labels.val)
                    IN IF Truthy(Get(issue, "assignees")) /\ assignees.thrown THEN Threw
                       ELSE AssignIf(Truthy(Get(issue, "assignees")), c2,
                                     "assignees", assignees.val)

releaseKeys ==
    <<"name", "tag_name", "html_url", "body", "draft", "prerelease",
      "published_at", "assets_url", "upload_url">>

RECURSIVE AssignAll(_, _, _)
\* c.val[k] = src[k] for each k of keys, in order
AssignAll(c, keys, src) ==
    IF keys = <<>> THEN c
    ELSE AssignAll(Assign(c, Head(keys), Get(src, Head(keys))), Tail(keys), src)

cleanRelease(release) ==
    LET c0 == removeExcessiveFields(release)
    IN IF c0.thrown THEN Threw ELSE AssignAll(c0, releaseKeys, release)

\* the body of data.map(...) of each case of the switch, and of its else branch
cleanRecord(rec, type) ==
    CASE type = "branch" -> cleanBranch(rec)
      [] type = "repository" -> cleanRepository(rec)
      [] type = "pull_request" -> cleanPullRequest(rec)
      [] type = "issue" -> cleanIssue(rec)
      [] type = "release" -> cleanRelease(rec)
      [] OTHER -> removeExcessiveFields(rec)

\* a primitive value (a string) the callee computed
Prim(x) == [thrown |-> FALSE, ref |-> "prim", val |-> x]

\* one tag of a list, as case 'tag' of the cleaner writes it
tagEntry(tag, index) ==
    IF Nullish(tag) THEN Threw
    ELSE LET sha == AndGet(Get(tag, "commit"), "sha")
         IN IF Truthy(sha) /\ sha.t # "string" THEN Threw
            ELSE Prim(NumStr(index) \o <<". ">> \o ToStr(Get(tag, "name")) \o <<"\n">>
                      \o (IF Truthy(sha)
                          THEN <<"   commit: ">> \o Substring0(sha.v, ShaLen) \o <<"\n">>
                          ELSE <<>>)
                      \o <<"\n">>)

RECURSIVE tagEntries(_, _)
\* data.forEach((tag, index) => result += ...), from element `from` on
tagEntries(tags, from) ==
    IF from > Len(tags) THEN Prim(<<>>)
    ELSE LET e == tagEntry(tags[from], from)
             rest == tagEntries(tags, from + 1)
         IN IF e.thrown \/ rest.thrown THEN Threw ELSE Prim(e.val \o rest.val)

\* case 'tag': the cleaner returns text
\*   "No tags found."  is  未找到任何标签。
\*   "Found N tags:"   is  找到 N 个标签:
\*   "tag: " / "commit: "  are  标签: / 提交:
cleanTag(data) ==
    IF IsArray(data)
    THEN IF Len(data.v) = 0 THEN Prim(Str(<<"No tags found.">>))
         ELSE LET es == tagEntries(data.v, 1)
              IN IF es.thrown THEN Threw
                 ELSE Prim(Str(<<"Found ">> \o NumStr(Len(data.v)) \o <<" tags:\n\n">> \o es.val))
    ELSE IF Nullish(data) THEN Threw
    ELSE LET sha == AndGet(Get(data, "commit"), "sha")
         IN IF Truthy(sha) /\ sha.t # "string" THEN Threw
            ELSE Prim(Str(<<"tag: ">> \o ToStr(Get(data, "name")) \o <<"\n">>
                          \o (IF Truthy(sha)
                              THEN <<"commit: ">> \o Substring0(sha.v, ShaLen) \o <<"\n">>
                              ELSE <<>>)))

SetMin(S) == CHOOSE x \in S : \A y \in S : x <= y

\* what data.map(...) leaves, given the cell each element's callback produced: a new
\* array of the cleaned elements; the map stops at the first callback that throws
mapResult(data, cells) ==
    LET bad == {i \in DOMAIN data.v : cells[i].thrown}
        stop == IF bad = {} THEN Len(data.v) + 1 ELSE SetMin(bad)
    IN [thrown |-> bad # {},
        out |-> Arr([i \in DOMAIN data.v |-> cells[i].val]),
        ref |-> "fresh",
        after |-> Arr([i \in DOMAIN data.v |->
                         IF i < stop /\ cells[i].ref = "arg" THEN cells[i].val
                         ELSE data.v[i]])]

\* data.map(rec => ...)
mapClean(data, type) ==
    mapResult(data, [i \in DOMAIN data.v |-> cleanRecord(data.v[i], type)])

\* what the try block leaves for a single record, given the cell c its case produced
recordResult(data, c) ==
    [thrown |-> c.thrown, out |-> c.val,
     ref |-> IF c.ref = "arg" THEN "input" ELSE "fresh",
     after |-> IF ~c.thrown /\ c.ref = "arg" THEN c.val ELSE data]

\* what the try block leaves for kind tag, given the text cell c
tagResult(data, c) ==
    [thrown |-> c.thrown, out |-> c.val, ref |-> "prim", after |-> data]

\* the try block of cleanGitHubResponse: what it returns or that it threw, and what
\* the caller's object holds afterwards
cleanTry(data, type) ==
    IF type = "tag" THEN tagResult(data, cleanTag(data))
    ELSE IF IsArray(data) THEN mapClean(data, type)
    ELSE recordResult(data, cleanRecord(data, type))

\* a slip that lets the exception escape (no try/catch)
cleanEscapes(r) ==
    [out |-> IF r.thrown THEN Undef ELSE r.out,
     ref |-> IF r.thrown THEN "none" ELSE r.ref,
     after |-> r.after, logged |-> FALSE, raised |-> r.thrown]

cleanGitHubResponseNoCatch(data, type) == cleanEscapes(cleanTry(data, type))

\* the catch block: log and return data, the caller's object itself (ref "input")
cleanCatch(r) ==
    IF r.thrown
    THEN [out |-> r.after, ref |-> "input", after |-> r.after,
          logged |-> TRUE, raised |-> FALSE]
    ELSE [out |-> r.out, ref |-> r.ref, after |-> r.after,
          logged |-> FALSE, raised |-> FALSE]

cleanGitHubResponse(data, type) == cleanCatch(cleanTry(data, type))

(***************************************************************************)
(* formatForHumans                                                         *)
(*                                                                         *)
(* Glosses of the literals:                                                *)
(*   "No branches found."        未找到任何分支。                          *)
(*   "No repositories found."    未找到任何仓库。                          *)
(*   "No pull requests found."   未找到任何拉取请求。                      *)
(*   "No issues found."          未找到任何议题。                          *)
(*   "No users found."           未找到任何用户。                          *)
(*   "No releases found."        未找到任何发布版本。                      *)
(*   "Found " n " branches:"     找到 n 个分支:    (likewise the others)   *)
(*   "protection: "              保护状态:      "protected" 已保护         *)
(*   "unprotected"               未保护         "latest commit: " 最新提交:*)
(*   "protection rules: enabled" 保护规则: 已启用                          *)
(*   "description: " 描述:   "link: " 链接:   "not provided" 未提供        *)
(*   "language: " 主要语言:  "stars: " 星标数:  "owner: " 仓库所有者:      *)
(*   "topics: " 主题标签:    "updated: " 更新于:  "unknown time" 未知时间  *)
(*   "open" 开放  "closed" 关闭  "author: " 创建者:  "created: " 创建于:   *)
(*   "merged: " 已合并:  "yes" 是  "no" 否  "merged at: " 合并于:          *)
(*   "closed at: " 关闭于:  "home: " 主页:  "[draft]" [草稿]               *)
(*   "[prerelease]" [预发布]  "published: " 发布于:  "unnamed" 未命名      *)
(*   "status: draft" 状态: 草稿   "type: prerelease" 类型: 预发布          *)
(*   "assets: " 资源链接:  "Data list:" 数据列表:  "Data details:" 数据详情:*)
(*   "Data:" 数据:                                                         *)
(***************************************************************************)
BodyPreview == 100

DigitChars == Range(Digit)

\* whether new Date(x) is a valid date: a number is, and so is a string that reads
\* as a date (here: one that starts with a digit)
DateValid(x) ==
    CASE x.t = "number" -> TRUE
      [] x.t = "string" -> x.v # <<>> /\ x.v[1] \in DigitChars
      [] x.t \in {"null", "boolean"} -> TRUE
      [] OTHER -> FALSE

\* new Date(x).toLocaleString()
LocaleString(x) ==
    IF DateValid(x) THEN <<"LocaleDate(">> \o ToStr(x) \o <<")">> ELSE <<"Invalid Date">>

\* x.length
Length(x) == IF x.t \in {"string", "array"} THEN Num(Len(x.v)) ELSE Undef

\* x.length > n
LongerThan(x, n) == Length(x).t = "number" /\ Length(x).v > n

\* x.state === 'open' ? '开放' : '关闭'
StateWord(x) ==
    IF Get(x, "state") = Str(<<"o", "p", "e", "n">>) THEN <<"open">> ELSE <<"closed">>

\* a label behind the indentation of its block (none for a single record)
Ind(ind, label) == IF ind = "" THEN <<label>> ELSE <<ind, label>>

\* a line written only when cond holds
LineIf(cond, line) == IF cond THEN line ELSE <<>>

RECURSIVE ConcatBlocks(_, _, _)
\* data.forEach((item, index) => result += Block(item, index + 1)), from `from` on
ConcatBlocks(Block(_, _), items, from) ==
    IF from > Len(items) THEN Prim(<<>>)
    ELSE LET b == Block(items[from], from)
             rest == ConcatBlocks(Block, items, from + 1)
         IN IF b.thrown \/ rest.thrown THEN Threw ELSE Prim(b.val \o rest.val)

\* the array branch of a case: the "none found" sentence, or a header and the blocks
ListText(none, noun, Block(_, _), items) ==
    IF Len(items) = 0 THEN Prim(<<none>>)
    ELSE LET bs == ConcatBlocks(Block, items, 1)
         IN IF bs.thrown THEN Threw
            ELSE Prim(<<"Found ">> \o NumStr(Len(items)) \o <<noun>> \o bs.val)

\* x.substring(0, 7) for a truthy x: a TypeError unless x is a string
ShortSha(x) == IF x.t = "string" THEN Prim(Substring0(x.v, ShaLen)) ELSE Threw

branchLines(branch, ind) ==
    LET sha == Get(branch, "commit_sha")
        short == ShortSha(sha)
    IN IF Truthy(sha) /\ short.thrown THEN Threw
       ELSE Prim(Ind(ind, "protection: ")
                 \o (IF Truthy(Get(branch, "protected")) THEN <<"protected">>
                     ELSE <<"unprotected">>) \o <<"\n">>
                 \o LineIf(Truthy(sha), Ind(ind, "latest commit: ") \o short.val \o <<"\n">>)
                 \o LineIf(Truthy(Get(branch, "protection_enabled")),
                           Ind(ind, "protection rules: enabled\n")))

branchBlock(branch, index) ==
    IF Nullish(branch) THEN Threw
    ELSE LET ls == branchLines(branch, "   ")
         IN IF ls.thrown THEN Threw
            ELSE Prim(NumStr(index) \o <<". ">> \o ToStr(Get(branch, "name")) \o <<"\n">>
                      \o ls.val \o <<"\n">>)

branchSingle(d) ==
    IF Nullish(d) THEN Threw
    ELSE LET ls == branchLines(d, "")
         IN IF ls.thrown THEN Threw
            ELSE Prim(<<"branch: ">> \o ToStr(Get(d, "name")) \o <<"\n">> \o ls.val)

\* repo.topics && repo.topics.length > 0, then repo.topics.join(', ')
topicsLine(repo, ind) ==
    LET topics == Get(repo, "topics")
    IN IF Truthy(topics) /\ LongerThan(topics, 0)
       THEN IF IsArray(topics)
            THEN Prim(Ind(ind, "topics: ") \o JoinStr(topics.v, <<", ">>) \o <<"\n">>)
            ELSE Threw
       ELSE Prim(<<>>)

\* updateDate && !isNaN(updateDate.getTime()) ? updateDate.toLocaleString() : '未知时间'
updatedText(repo) ==
    LET at == Get(repo, "updated_at")
    IN IF Truthy(at) /\ DateValid(at) THEN LocaleString(at) ELSE <<"unknown time">>

repositoryLines(repo, ind, inList) ==
    LET topics == topicsLine(repo, ind)
    IN IF topics.thrown THEN Threw
       ELSE Prim(ToStr(OrElse(Get(repo, "full_name"), Get(repo, "name"))) \o <<"\n">>
                 \o LineIf(Truthy(Get(repo, "description")),
                           Ind(ind, "description: ") \o ToStr(Get(repo, "description")) \o <<"\n">>)
                 \o Ind(ind, "link: ")
                 \o (IF Truthy(Get(repo, "html_url")) THEN ToStr(Get(repo, "html_url"))
                     ELSE <<"not provided">>) \o <<"\n">>
                 \o LineIf(Truthy(Get(repo, "language")),
                           Ind(ind, "language: ") \o ToStr(Get(repo, "language")) \o <<"\n">>)
                 \o LineIf(Truthy(Get(repo, "stars")),
                           Ind(ind, "stars: ") \o ToStr(Get(repo, "stars")) \o <<"\n">>)
                 \o LineIf(inList /\ Truthy(Get(repo, "belongsTo")),
                           Ind(ind, "owner: ") \o ToStr(Get(repo, "belongsTo")) \o <<"\n">>)
                 \o topics.val
                 \o Ind(ind, "updated: ") \o updatedText(repo)
                 \o (IF inList THEN <<"\n\n">> ELSE <<"\n">>))

repositoryBlock(repo, index) ==
    IF Nullish(repo) THEN Threw
    ELSE LET ls == repositoryLines(repo, "   ", TRUE)
         IN IF ls.thrown THEN Threw ELSE Prim(NumStr(index) \o <<". ">> \o ls.val)

repositorySingle(d) ==
    IF Nullish(d) THEN Threw
    ELSE LET ls == repositoryLines(d, "", FALSE)
         IN IF ls.thrown THEN Threw ELSE Prim(<<"repository: ">> \o ls.val)

\* the lines a pull request and an issue share: author and creation date
authorLines(x, ind) ==
    LineIf(Truthy(Get(x, "user")), Ind(ind, "author: ") \o ToStr(Get(x, "user")) \o <<"\n">>)
    \o LineIf(Truthy(Get(x, "created_at")),
              Ind(ind, "created: ") \o LocaleString(Get(x, "created_at")) \o <<"\n">>)

pullRequestLines(pr, ind) ==
    authorLines(pr, ind)
    \o LineIf(Get(pr, "merged") # Undef,
              Ind(ind, "merged: ")
              \o (IF Truthy(Get(pr, "merged")) THEN <<"yes">> ELSE <<"no">>) \o <<"\n">>)
    \o LineIf(Truthy(Get(pr, "merged_at")),
              Ind(ind, "merged at: ") \o LocaleString(Get(pr, "merged_at")) \o <<"\n">>)
    \o Ind(ind, "link: ") \o ToStr(Get(pr, "html_url")) \o <<"\n">>

issueLines(issue, ind) ==
    authorLines(issue, ind)
    \o LineIf(Truthy(Get(issue, "closed_at")),
              Ind(ind, "closed at: ") \o LocaleString(Get(issue, "closed_at")) \o <<"\n">>)
    \o Ind(ind, "link: ") \o ToStr(Get(issue, "html_url")) \o <<"\n">>

\* a slip that numbers the blocks from 0
numberedTitleFromZero(x, index) ==
    NumStr(index - 1) \o <<". [">> \o StateWord(x) \o <<"] #">> \o ToStr(Get(x, "number"))
    \o <<": ">> \o ToStr(Get(x, "title")) \o <<"\n">>

\* `${index + 1}. [${state}] #${number}: ${title}\n`
numberedTitle(x, index) ==
    NumStr(index) \o <<". [">> \o StateWord(x) \o <<"] #">> \o ToStr(Get(x, "number"))
    \o <<": ">> \o ToStr(Get(x, "title")) \o <<"\n">>

\* `拉取请求 #${number}: ${title}\n状态: ${state}\n`
singleTitle(x, noun) ==
    <<noun, " #">> \o ToStr(Get(x, "number")) \o <<": ">> \o ToStr(Get(x, "title"))
    \o <<"\n", "state: ">> \o StateWord(x) \o <<"\n">>

pullRequestBlock(pr, index) ==
    IF Nullish(pr) THEN Threw
    ELSE Prim(numberedTitle(pr, index) \o pullRequestLines(pr, "   ") \o <<"\n">>)

pullRequestSingle(d) ==
    IF Nullish(d) THEN Threw
    ELSE Prim(singleTitle(d, "pull request") \o pullRequestLines(d, ""))

issueBlock(issue, index) ==
    IF Nullish(issue) THEN Threw
    ELSE Prim(numberedTitle(issue, index) \o issueLines(issue, "   ") \o <<"\n">>)

issueSingle(d) ==
    IF Nullish(d) THEN Threw
    ELSE Prim(singleTitle(d, "issue") \o issueLines(d, ""))

userLines(user, ind) ==
    ToStr(OrElse(Get(user, "login"), Get(user, "name"))) \o <<"\n">>
    \o LineIf(Truthy(Get(user, "html_url")),
              Ind(ind, "home: ") \o ToStr(Get(user, "html_url")) \o <<"\n">>)
    \o LineIf(Truthy(Get(user, "description")),
              Ind(ind, "description: ") \o ToStr(Get(user, "description")) \o <<"\n">>)

userBlock(user, index) ==
    IF Nullish(user) THEN Threw
    ELSE Prim(NumStr(index) \o <<". ">> \o userLines(user, "   ") \o <<"\n">>)

userSingle(d) ==
    IF Nullish(d) THEN Threw ELSE Prim(<<"user: ">> \o userLines(d, ""))

\* case 'tag' of the formatter: the text case 'tag' of the cleaner also writes
tagBlock(tag, index) == tagEntry(tag, index)

tagSingle(d) ==
    LET c == cleanTag(d)
    IN IF c.thrown THEN Threw ELSE Prim(c.val.v)

\* a slip that cuts the body without marking the cut
shortBodyNoMark(body) ==
    IF LongerThan(body, BodyPreview)
    THEN IF body.t = "string" THEN Prim(Substring0(body.v, BodyPreview)) ELSE Threw
    ELSE Prim(ToStr(body))

\* release.body.length > 100 ? release.body.substring(0, 100) + '...' : release.body
shortBody(body) ==
    IF LongerThan(body, BodyPreview)
    THEN IF body.t = "string" THEN Prim(Substring0(body.v, BodyPreview) \o Ellipsis) ELSE Threw
    ELSE Prim(ToStr(body))

releaseBlock(release, index) ==
    IF Nullish(release) THEN Threw
    ELSE LET body == Get(release, "body")
             short == shortBody(body)
         IN IF Truthy(body) /\ short.thrown THEN Threw
            ELSE Prim(NumStr(index) \o <<". ">>
                      \o ToStr(OrElse(Get(release, "name"), Get(release, "tag_name")))
                      \o <<"\n">>
                      \o LineIf(Truthy(Get(release, "draft")), <<"   [draft]\n">>)
                      \o LineIf(Truthy(Get(release, "prerelease")), <<"   [prerelease]\n">>)
                      \o LineIf(Truthy(Get(release, "published_at")),
                                <<"   published: ">>
                                \o LocaleString(Get(release, "published_at")) \o <<"\n">>)
                      \o LineIf(Truthy(body), <<"   description: ">> \o short.val \o <<"\n">>)
                      \o <<"   link: ">>
                      \o (IF Truthy(Get(release, "html_url"))
                          THEN ToStr(Get(release, "html_url")) ELSE <<"not provided">>)
                      \o <<"\n\n">>)

releaseSingle(d) ==
    IF Nullish(d) THEN Threw
    ELSE Prim(<<"release: ">>
              \o (IF Truthy(OrElse(Get(d, "name"), Get(d, "tag_name")))
                  THEN ToStr(OrElse(Get(d, "name"), Get(d, "tag_name")))
                  ELSE <<"unnamed">>) \o <<"\n">>
              \o LineIf(Truthy(Get(d, "draft")), <<"status: draft\n">>)
              \o LineIf(Truthy(Get(d, "prerelease")), <<"type: prerelease\n">>)
              \o LineIf(Truthy(Get(d, "published_at")),
                        <<"published: ">> \o LocaleString(Get(d, "published_at")) \o <<"\n">>)
              \o LineIf(Truthy(Get(d, "body")),
                        <<"description:\n">> \o ToStr(Get(d, "body")) \o <<"\n">>)
              \o <<"link: ">>
              \o (IF Truthy(Get(d, "html_url")) THEN ToStr(Get(d, "html_url"))
                  ELSE <<"not provided">>) \o <<"\n">>
              \o LineIf(Truthy(Get(d, "assets_url")),
                        <<"assets: ">> \o ToStr(Get(d, "assets_url")) \o <<"\n">>))

\* the order in which Object.entries and JSON.stringify visit the fields of an
\* object: the order the cleaner inserts them in, then the other names upstream uses
KeyOrder ==
    keysToKeep \o
    <<"owner", "user", "commit_sha", "protection_enabled", "protection_details",
      "topics", "open_issues_count", "clone_url", "stars", "visibility", "merged_at",
      "head_branch", "base_branch", "merged", "closed_at", "labels", "assignees",
      "stargazers_count", "watchers", "head", "base", "ref", "enabled", "node_id",
      "zipball_url", "belongsTo", "followedByUser", "message", "author", "names",
      "content", "size", "type", "path", "status">>

\* the fields of an object, in KeyOrder
OwnKeys(o) == SelectSeq(KeyOrder, LAMBDA k : k \in Keys(o))

\* Object.entries(x): the fields of an object, the elements of an array, the
\* characters of a string, nothing for another primitive
Entries(x) ==
    CASE x.t = "object" -> [i \in DOMAIN OwnKeys(x) |-> <<<<OwnKeys(x)[i]>>, x.v[OwnKeys(x)[i]]>>]
      [] x.t = "array" -> [i \in DOMAIN x.v |-> <<NumStr(i - 1), x.v[i]>>]
      [] x.t = "string" -> [i \in DOMAIN x.v |-> <<NumStr(i - 1), Str(<<x.v[i]>>)>>]
      [] OTHER -> <<>>

RECURSIVE EntryLines(_, _)
\* entries.map(([key, value]) => `${key}: ${value}`).join(sep)
EntryLines(es, sep) ==
    IF es = <<>> THEN <<>>
    ELSE Head(es)[1] \o <<": ">> \o ToStr(Head(es)[2])
         \o (IF Len(es) > 1 THEN <<sep>> \o EntryLines(Tail(es), sep) ELSE <<>>)

defaultItem(item, index) ==
    IF Nullish(item) THEN Threw
    ELSE Prim(NumStr(index) \o <<". ">> \o EntryLines(Entries(item), "\n   ") \o <<"\n">>)

RECURSIVE JoinBlocks(_, _, _)
\* data.map((item, index) => ...).join('\n'), from element `from` on
JoinBlocks(items, from, sep) ==
    IF from > Len(items) THEN Prim(<<>>)
    ELSE LET b == defaultItem(items[from], from)
             rest == JoinBlocks(items, from + 1, sep)
         IN IF b.thrown \/ rest.thrown THEN Threw
            ELSE Prim(b.val \o (IF from < Len(items) THEN <<sep>> ELSE <<>>) \o rest.val)

defaultText(d) ==
    IF IsArray(d)
    THEN LET bs == JoinBlocks(d.v, 1, "\n")
         IN IF bs.thrown THEN Threw ELSE Prim(<<"Data list:\n\n">> \o bs.val)
    ELSE IF Nullish(d) THEN Threw
    ELSE Prim(<<"Data details:\n\n">> \o EntryLines(Entries(d), "\n") \o <<"\n">>)

\* the try block of formatForHumans: the text, or that it threw
formatTry(d, kind) ==
    CASE kind = "branch" ->
             IF IsArray(d) THEN ListText("No branches found.", " branches:\n\n", branchBlock, d.v)
             ELSE branchSingle(d)
      [] kind = "repository" ->
             IF IsArray(d)
             THEN ListText("No repositories found.", " repositories:\n\n", repositoryBlock, d.v)
             ELSE repositorySingle(d)
      [] kind = "pull_request" ->
             IF IsArray(d)
             THEN ListText("No pull requests found.", " pull requests:\n\n", pullRequestBlock, d.v)
             ELSE pullRequestSingle(d)
      [] kind = "issue" ->
             IF IsArray(d) THEN ListText("No issues found.", " issues:\n\n", issueBlock, d.v)
             ELSE issueSingle(d)
      [] kind = "user" ->
             IF IsArray(d) THEN ListText("No users found.", " users:\n\n", userBlock, d.v)
             ELSE userSingle(d)
      [] kind = "tag" ->
             IF IsArray(d) THEN ListText("No tags found.", " tags:\n\n", tagBlock, d.v)
             ELSE tagSingle(d)
      [] kind = "release" ->
             IF IsArray(d) THEN ListText("No releases found.", " releases:\n\n", releaseBlock, d.v)
             ELSE releaseSingle(d)
      [] OTHER -> defaultText(d)

RECURSIVE Json(_)
RECURSIVE JsonList(_)
RECURSIVE JsonFields(_, _)
\* the elements of an array, comma-separated; undefined is written null
JsonList(s) ==
    IF s = <<>> THEN <<>>
    ELSE (IF Head(s).t = "undefined" THEN <<"null">> ELSE Json(Head(s)))
         \o (IF Len(s) > 1 THEN <<",">> \o JsonList(Tail(s)) ELSE <<>>)

\* the fields of object o named by keys, comma-separated
JsonFields(o, keys) ==
    IF keys = <<>> THEN <<>>
    ELSE <<"\"", Head(keys), "\"", ":">> \o Json(o.v[Head(keys)])
         \o (IF Len(keys) > 1 THEN <<",">> \o JsonFields(o, Tail(keys)) ELSE <<>>)

\* JSON.stringify(x) for a value other than undefined (the indentation left out);
\* fields whose value is undefined are not written
Json(x) ==
    CASE x.t = "string" -> <<"\"">> \o x.v \o <<"\"">>
      [] x.t = "array" -> <<"[">> \o JsonList(x.v) \o <<"]">>
      [] x.t = "object" ->
             <<"{">> \o JsonFields(x, SelectSeq(OwnKeys(x), LAMBDA k : x.v[k] # Undef))
             \o <<"}">>
      [] OTHER -> ToStr(x)

\* `${JSON.stringify(data, null, 2)}`: JSON.stringify(undefined) is undefined
JsonDump(x) == IF x.t = "undefined" THEN <<"undefined">> ELSE Json(x)

\* a slip that lets the exception escape (no try/catch)
formatForHumansNoCatch(d, kind) ==
    LET r == formatTry(d, kind)
    IN [text |-> IF r.thrown THEN Undef ELSE Str(r.val), logged |-> FALSE,
        raised |-> r.thrown]

\* a slip that leaves out the data.length === 0 tests
formatForHumansNoEmptyTest(d, kind) ==
    LET r == formatTry(d, kind)
    IN IF r.thrown
       THEN [text |-> Str(<<"Data:\n">> \o JsonDump(d)), logged |-> TRUE, raised |-> FALSE]
       ELSE IF d = Arr(<<>>)
       THEN [text |-> Str(<<"Found ", "0", ":\n\n">>), logged |-> FALSE, raised |-> FALSE]
       ELSE [text |-> Str(r.val), logged |-> FALSE, raised |-> FALSE]

formatForHumans(d, kind) ==
    LET r == formatTry(d, kind)
    IN IF r.thrown
       THEN [text |-> Str(<<"Data:\n">> \o JsonDump(d)), logged |-> TRUE, raised |-> FALSE]
       ELSE [text |-> Str(r.val), logged |-> FALSE, raised |-> FALSE]

(***************************************************************************)
(* Inputs of the cleaner                                                   *)
(***************************************************************************)
MaxOver == 2
MaxArr == 2

\* a data string of n characters
Text(n) == [i \in 1..n |-> <<"a", "b", "c">>[(i % 3) + 1]]

BodyLens == {1, TruncLimit, TruncLimit + 1, TruncLimit + MaxOver}

BodyOpts == {EmptyFields} \cup {"body" :> Str(Text(n)) : n \in BodyLens}
DescOpts ==
    {EmptyFields, "description" :> Str(Text(TruncLimit)),
     "description" :> Str(Text(TruncLimit + 1))}
OwnerOpts ==
    {EmptyFields, "owner" :> Obj("login" :> Str(<<"o">>) @@ "id" :> Num(1)),
     "owner" :> Obj("id" :> Num(1)), "owner" :> Str(<<"o">>)}
UserOpts ==
    {EmptyFields, "user" :> Obj("login" :> Str(<<"u">>) @@ "id" :> Num(2)), "user" :> Null}
ExtraOpts == {EmptyFields, "node_id" :> Str(<<"x">>)}

Sha == Str(<<"0", "1", "2", "3", "4", "5", "6", "7", "8">>)
Date == Str(<<"2", "0", "2", "4">>)

\* fields the kinds read, as upstream sends them
KindParts ==
    { EmptyFields,
      "full_name" :> Str(<<"a", "/", "b">>) @@ "stargazers_count" :> Num(5)
        @@ "topics" :> Arr(<<Str(<<"t">>)>>) @@ "visibility" :> Str(<<"p">>)
        @@ "clone_url" :> Str(<<"c">>) @@ "open_issues_count" :> Num(0)
        @@ "html_url" :> Str(<<"h">>) @@ "updated_at" :> Date,
      "name" :> Str(<<"r">>) @@ "stargazers_count" :> Num(0) @@ "topics" :> Arr(<<>>)
        @@ "watchers" :> Num(3),
      "number" :> Num(4) @@ "head" :> Obj("ref" :> Str(<<"f">>) @@ "sha" :> Sha)
        @@ "base" :> Obj("ref" :> Str(<<"m">>)) @@ "merged" :> Bool(FALSE)
        @@ "merged_at" :> Null,
      "number" :> Num(4) @@ "head" :> Obj("sha" :> Sha) @@ "base" :> Obj("sha" :> Sha)
        @@ "merged" :> Bool(TRUE) @@ "merged_at" :> Date,
      "number" :> Num(4) @@ "head" :> Null @@ "base" :> Obj("ref" :> Str(<<"m">>)),
      "number" :> Num(9) @@ "labels" :> Arr(<<Str(<<"l">>), Obj("name" :> Str(<<"k">>))>>)
        @@ "assignees" :> Arr(<<Obj("login" :> Str(<<"g">>))>>) @@ "closed_at" :> Date,
      "number" :> Num(9) @@ "labels" :> Arr(<<>>) @@ "assignees" :> Null
        @@ "closed_at" :> Null,
      "name" :> Str(<<"m">>) @@ "protected" :> Bool(TRUE) @@ "commit" :> Obj("sha" :> Sha)
        @@ "protection" :> Obj("enabled" :> Bool(TRUE)),
      "name" :> Str(<<"d">>) @@ "protected" :> Bool(FALSE) @@ "commit" :> Obj(EmptyFields),
      "name" :> Str(<<"v">>) @@ "tag_name" :> Str(<<"v", "1">>) @@ "html_url" :> Str(<<"h">>)
        @@ "draft" :> Bool(FALSE) @@ "prerelease" :> Bool(TRUE) @@ "published_at" :> Date
        @@ "assets_url" :> Str(<<"s">>) @@ "upload_url" :> Str(<<"u">>),
      "tag_name" :> Str(<<"v", "2">>) @@ "zipball_url" :> Str(<<"z">>) }

Records ==
    {b @@ d @@ o @@ u @@ e @@ k :
        b \in BodyOpts, d \in DescOpts, o \in OwnerOpts, u \in UserOpts,
        e \in ExtraOpts, k \in KindParts}

\* the elements of array inputs: a few records, and null
Elements ==
    {Null} \cup {Obj(("body" :> Str(Text(TruncLimit + 1))) @@ ("node_id" :> Str(<<"x">>))
                     @@ ("user" :> Obj("login" :> Str(<<"u">>))) @@ k) : k \in KindParts}

RECURSIVE SeqsUpTo(_, _)
SeqsUpTo(S, n) ==
    IF n = 0 THEN {<<>>}
    ELSE LET shorter == SeqsUpTo(S, n - 1)
         IN shorter \cup {Append(s, x) : s \in {q \in shorter : Len(q) = n - 1}, x \in S}

Primitives == {Null, Undef, Num(5), Str(<<"s">>), Bool(TRUE)}

Inputs ==
    Primitives \cup {Obj(r) : r \in Records} \cup {Arr(s) : s \in SeqsUpTo(Elements, MaxArr)}

Kinds == {"", "branch", "repository", "pull_request", "issue", "tag", "release", "user"}

(***************************************************************************)
(* State                                                                   *)
(***************************************************************************)
VARIABLES
    pc,         \* "ready" before the call under study, "done" after it; for a tool
                \* handler: "idle", the await it is suspended at, or "done"
    data,       \* the value passed to the cleaner: the caller's object
    type,       \* the kind passed with it
    dataAfter,  \* what the caller's object holds after the call
    cleaned,    \* the value cleanGitHubResponse returned
    cleanedRef, \* "input" when that value is the caller's object itself
    recleaned,  \* the value cleanGitHubResponse returned for that value in turn
    formatted,  \* the value formatForHumans returned
    errorLog,   \* the console.error calls made
    raised,     \* an exception reached the caller
    tool,       \* the tool the dispatcher invoked
    params,     \* the parameters it was invoked with
    pending,    \* the upstream call the handler awaits
    calls,      \* the upstream calls that settled, in order
    locals,     \* the handler's local variables
    result,     \* what the handler's promise resolved with
    other,      \* a second invocation, running while the first does
    lockFile,   \* what LOCK_FILE holds
    processes   \* the instances of the server, by pid

vars == <<pc, data, type, dataAfter, cleaned, cleanedRef, recleaned, formatted, errorLog,
          raised,
          tool, params, pending, calls, locals, result, other, lockFile, processes>>

\* the variables of a tool invocation, and their values while no tool runs
handlerVars == <<tool, params, pending, calls, locals, result, other>>

NoCall == [api |-> "", arg |-> <<>>]

\* the second invocation before the dispatcher made it; overlap records that one
\* invocation ran a step while the other was suspended
NoOther ==
    [pc |-> "idle", tool |-> "", params |-> EmptyFields, pending |-> NoCall, calls |-> <<>>,
     locals |-> EmptyFields, result |-> Undef, raised |-> FALSE, overlap |-> FALSE]

MaxInstances == 2

Instances == 1..MaxInstances

\* contents of LOCK_FILE: no file, text JSON.parse rejects, or a lock record
NoFile == [kind |-> "absent", pid |-> 0, instanceId |-> 0]

Unparseable == [kind |-> "unparseable", pid |-> 0, instanceId |-> 0]

\* an instance before it is launched; canWrite: writes of LOCK_FILE succeed
Unlaunched(cw) ==
    [pc |-> "new", lockData |-> NoFile, timer |-> FALSE, signal |-> FALSE, exiting |-> FALSE,
     exitCode |-> -1, writes |-> 0, returned |-> "none", threw |-> "none",
     removed |-> NoFile, foundLive |-> FALSE, canWrite |-> cw]

lockVars == <<lockFile, processes>>

\* no instance is launched
NoProcesses ==
    /\ lockFile = NoFile
    /\ processes = [i \in Instances |-> Unlaunched(TRUE)]

NoHandler ==
    /\ tool = ""
    /\ params = EmptyFields
    /\ pending = NoCall
    /\ calls = <<>>
    /\ locals = EmptyFields
    /\ result = Undef
    /\ other = NoOther

(***************************************************************************)
(* The cleaner, called once on any input                                   *)
(***************************************************************************)
InitClean ==
    /\ pc = "ready"
    /\ data \in Inputs
    /\ type \in Kinds
    /\ dataAfter = data
    /\ cleaned = Undef
    /\ cleanedRef = "none"
    /\ recleaned = Undef
    /\ formatted = Undef
    /\ errorLog = <<>>
    /\ raised = FALSE
    /\ NoHandler
    /\ NoProcesses

CallClean ==
    /\ pc = "ready"
    /\ LET r == cleanGitHubResponse(data, type)
       IN /\ cleaned' = r.out
          /\ cleanedRef' = r.ref
          /\ dataAfter' = r.after
          /\ errorLog' = IF r.logged THEN Append(errorLog, "Data cleaning error:") ELSE errorLog
          /\ raised' = r.raised
    /\ pc' = "done"
    /\ UNCHANGED lockVars
    /\ UNCHANGED <<data, type, recleaned, formatted>>
    /\ UNCHANGED handlerVars

\* the value the first call returned is cleaned again, as the same kind
CleanAgain ==
    /\ pc = "done"
    /\ LET r == cleanGitHubResponse(cleaned, type)
       IN /\ recleaned' = r.out
          /\ errorLog' = IF r.logged THEN Append(errorLog, "Data cleaning error:") ELSE errorLog
          /\ raised' = r.raised
    /\ pc' = "again"
    /\ UNCHANGED lockVars
    /\ UNCHANGED <<data, type, dataAfter, cleaned, cleanedRef, formatted>>
    /\ UNCHANGED handlerVars

NextClean == CallClean \/ CleanAgain

SpecClean == InitClean /\ [][NextClean]_vars

(***************************************************************************)
(* The formatter, called once on what the cleaner returns for any input    *)
(***************************************************************************)
\* the records the formatter is tried on, before cleaning
FormatRecords == {b @@ u @@ k : b \in BodyOpts, u \in UserOpts, k \in KindParts}

\* a date string new Date cannot parse
BadDate == Str(<<"x">>)

\* records whose dates may be unparseable
DatedRecords ==
    {("number" :> Num(4)) @@ ("created_at" :> c) @@ ("updated_at" :> c)
        @@ ("published_at" :> c) @@ ("merged_at" :> e) @@ ("closed_at" :> e) :
        c \in {Date, BadDate}, e \in {Date, BadDate}}

\* records that carry a description
DescribedRecords ==
    {("name" :> Str(<<"r">>)) @@ d : d \in DescOpts \ {EmptyFields}}

FormatSources ==
    Primitives \cup {Obj(r) : r \in FormatRecords \cup DatedRecords \cup DescribedRecords}
        \cup {Arr(<<Obj(r)>>) : r \in DescribedRecords}
        \cup {Arr(s) : s \in SeqsUpTo(Elements, MaxArr)}

\* what handlers pass to formatForHumans: the cleaner's result for some kind
FormatInputs == {cleanGitHubResponse(x, k).out : x \in FormatSources, k \in Kinds}

InitFormat ==
    /\ pc = "ready"
    /\ data \in FormatInputs
    /\ type \in Kinds
    /\ dataAfter = data
    /\ cleaned = data
    /\ cleanedRef = "none"
    /\ recleaned = Undef
    /\ formatted = Undef
    /\ errorLog = <<>>
    /\ raised = FALSE
    /\ NoHandler
    /\ NoProcesses

CallFormat ==
    /\ pc = "ready"
    /\ LET r == formatForHumans(data, type)
       IN /\ formatted' = r.text
          /\ errorLog' = IF r.logged THEN Append(errorLog, "Formatting error:") ELSE errorLog
          /\ raised' = r.raised
    /\ pc' = "done"
    /\ UNCHANGED lockVars
    /\ UNCHANGED <<data, type, dataAfter, cleaned, cleanedRef, recleaned>>
    /\ UNCHANGED handlerVars

NextFormat == CallFormat

SpecFormat == InitFormat /\ [][NextFormat]_vars

(***************************************************************************)
(* Properties of the cleaner (under SpecClean)                             *)
(***************************************************************************)
\* the call returned and no cleaning step raised
Completed == pc = "done" /\ errorLog = <<>> /\ ~raised

\* the records given and the records returned, pairwise, when the shapes agree
RecordPairs ==
    IF IsArray(data)
    THEN IF IsArray(cleaned) /\ Len(cleaned.v) = Len(data.v)
         THEN {<<data.v[i], cleaned.v[i]>> : i \in DOMAIN data.v}
         ELSE {}
    ELSE IF data.t = "object" /\ cleaned.t = "object" THEN {<<data, cleaned>>} ELSE {}

\* the shape of the result mirrors the shape of the input
ShapeMirrored ==
    /\ IsArray(data) => IsArray(cleaned) /\ Len(cleaned.v) = Len(data.v)
    /\ data.t = "object" => cleaned.t = "object"

\* C4: cleanGitHubResponse never throws; whenever a cleaning step raises (as it does
\* on null, on undefined and on an array holding null) the value returned is the
\* very input, and the input is unmodified.
CleanNeverThrows ==
    pc = "done" =>
        /\ ~raised
        /\ errorLog # <<>> => cleaned = data /\ cleanedRef = "input" /\ dataAfter = data
        /\ (Nullish(data) \/ (IsArray(data) /\ Null \in Range(data.v))) =>
              cleaned = data /\ cleanedRef = "input" /\ errorLog # <<>>

\* C4 witness: an array whose second element is null was given, a step raised,
\* and the array itself came back
CleanFellBack ==
    /\ pc = "done"
    /\ errorLog # <<>>
    /\ IsArray(data) /\ Len(data.v) = 2 /\ data.v[1] # Null /\ data.v[2] = Null
    /\ cleaned = data /\ cleanedRef = "input"

\* C6 as claimed: the input object keeps its fields and values, and the value
\* returned is always newly created, never the input object itself.
CleanAlwaysNewStructure ==
    (pc = "done" /\ data.t \in {"object", "array"}) =>
        dataAfter = data /\ cleanedRef # "input"

\* C6 amended: the input object (and each element of an input array) keeps its
\* fields and values; the value returned is newly created exactly when no cleaning
\* step raised, and is the input object itself when one did.
CleanLeavesInput ==
    (pc = "done" /\ data.t \in {"object", "array"}) =>
        /\ dataAfter = data
        /\ cleanedRef = "input" <=> errorLog # <<>>
        /\ cleanedRef # "input" => cleanedRef \in {"fresh", "prim"}

\* C6 witness: a repository record with a long body was cleaned into a new,
\* different object and still holds its long body
CleanedIntoNew ==
    /\ pc = "done" /\ type = "repository" /\ data.t = "object"
    /\ Get(data, "body") = Str(Text(TruncLimit + 1))
    /\ cleanedRef = "fresh" /\ cleaned # data /\ "stars" \in Keys(cleaned)
    /\ dataAfter = data

TruncKinds == {"", "repository", "pull_request", "issue", "branch", "release"}

\* what the truncation rule gives for a string value
Truncated(x) ==
    IF Len(x.v) > TruncLimit THEN Str(SubSeq(x.v, 1, TruncLimit) \o Ellipsis) ELSE x

TruncationHolds(kinds) ==
    (Completed /\ type \in kinds) =>
        \A p \in RecordPairs : \A f \in {"body", "description"} :
            Get(p[1], f).t = "string" => Get(p[2], f) = Truncated(Get(p[1], f))

\* C7 as claimed: for each kind the cleaner handles (release among them), a body or
\* description string longer than 300 characters is cleaned to its first 300
\* characters followed by "...", and a shorter one is kept as it is.
TruncatesEveryKind == TruncationHolds(TruncKinds)

\* the same rule for the kinds other than release, which holds
TruncatesButRelease == TruncationHolds(TruncKinds \ {"release"})

CleanedAsElements ==
    IsArray(data) =>
        \A i \in DOMAIN data.v :
            LET c == cleanRecord(data.v[i], IF type = "tag" THEN "" ELSE type)
            IN ~c.thrown /\ cleaned.v[i] = c.val

\* C8 as claimed: for every array input and every kind (tag among them) the result
\* is an array of the same length whose i-th element is the cleaned i-th input
\* element; for every single record the result is a single record.
CleanMirrorsShape == Completed => ShapeMirrored /\ CleanedAsElements

\* the same for the kinds other than tag, which holds
CleanMirrorsShapeButTag == (Completed /\ type # "tag") => ShapeMirrored /\ CleanedAsElements

GenericNames == Range(keysToKeep) \cup {"owner", "user"}

\* the augmentation fields the claim lists for each kind
ClaimedAugmentation(K) ==
    CASE K = "repository" ->
             {"stars", "topics", "visibility", "clone_url", "open_issues_count"}
      [] K = "pull_request" -> {"head_branch", "base_branch", "merged", "merged_at"}
      [] K = "issue" -> {"closed_at", "labels", "assignees"}
      [] K = "branch" -> {"commit_sha", "protection_details"}
      [] OTHER -> {}

\* the same with the field the branch case also writes
Augmentation(K) ==
    IF K = "branch" THEN ClaimedAugmentation(K) \cup {"protection_enabled"}
    ELSE ClaimedAugmentation(K)

\* C9 as claimed: every field name of a cleaned record of kind K is one of the 27
\* generic names, owner, user, or one of K's listed augmentation fields (for
\* branch: commit_sha and protection_details).
OnlyClaimedFields ==
    (Completed /\ type # "tag") =>
        /\ ShapeMirrored
        /\ \A p \in RecordPairs : Keys(p[2]) \subseteq GenericNames \cup ClaimedAugmentation(type)

\* C9 amended: the same, the allow-list of kind branch holding protection_enabled
\* as well as commit_sha and protection_details.
OnlyAllowedFields ==
    (Completed /\ type # "tag") =>
        /\ ShapeMirrored
        /\ \A p \in RecordPairs : Keys(p[2]) \subseteq GenericNames \cup Augmentation(type)

\* C9 witness: a protected branch carrying a field outside the allow-list was
\* cleaned; protection_enabled is in the result and the outside field is not
BranchCleaned ==
    /\ Completed /\ type = "branch" /\ data.t = "object"
    /\ "node_id" \in Keys(data) /\ "node_id" \notin Keys(cleaned)
    /\ "protection_enabled" \in Keys(cleaned) /\ "commit_sha" \in Keys(cleaned)

IdempotentKinds == {"", "repository", "pull_request", "issue", "branch", "tag", "release"}

\* the input is a well-formed record of its kind: its field names belong to the
\* kind's allow-list, and its owner and user are as the upstream sends them
WithinAllowList ==
    /\ data.t = "object"
    /\ Keys(data) \subseteq GenericNames \cup Augmentation(type)
    /\ \A f \in {"owner", "user"} :
          f \in Keys(data) => Get(data, f) = Null \/ HasLogin(Get(data, f))

\* C11 as claimed: for every kind and every well-formed record whose fields belong
\* to the kind's allow-list, cleaning the cleaned value once more gives the cleaned
\* value again, a body or description longer than 300 characters included.
CleanIdempotent ==
    (pc = "again" /\ type \in IdempotentKinds /\ WithinAllowList) => recleaned = cleaned

\* the same for the kinds other than tag and for records without owner and user
CleanIdempotentButTagOwnerUser ==
    (/\ pc = "again" /\ type \in IdempotentKinds \ {"tag"} /\ WithinAllowList
     /\ Keys(data) \cap {"owner", "user"} = {}) => recleaned = cleaned

\* the fields of a cleaned pull request that can be derived from what record d
\* holds, each with its value
DerivedFromPull(d) ==
    LET kept == {k \in Range(keysToKeep) : Get(d, k) # Undef}
        flat == {f \in {"owner", "user"} : HasLogin(Get(d, f))}
        ends == {e \in {"head", "base"} : Truthy(AndGet(Get(d, e), "ref"))}
        branches == {IF e = "head" THEN "head_branch" ELSE "base_branch" : e \in ends}
        more == {k \in {"merged_at"} : Truthy(Get(d, k))}
                    \cup {k \in {"merged"} : Get(d, k) # Undef}
    IN [k \in kept \cup flat \cup branches \cup more |->
          CASE k \in flat -> Get(Get(d, k), "login")
            [] k = "head_branch" -> Get(Get(d, "head"), "ref")
            [] k = "base_branch" -> Get(Get(d, "base"), "ref")
            [] k \in more -> Get(d, k)
            [] OTHER -> KeptValue(d, k)]

\* C20: for kind 'pull_request' and every input object, whichever of head, base,
\* user, merged, merged_at and head.ref/base.ref it lacks, cleaning does not throw
\* and returns a new object holding exactly the fields that can be derived from
\* what is present: no head_branch when head or head.ref is missing, and likewise
\* for base_branch.
PullRequestPartlyCleaned ==
    (pc = "done" /\ type = "pull_request" /\ data.t = "object") =>
        /\ ~raised /\ errorLog = <<>>
        /\ cleanedRef # "input"
        /\ cleaned = Obj(DerivedFromPull(data))
        /\ "head_branch" \in Keys(cleaned) <=> Truthy(AndGet(Get(data, "head"), "ref"))
        /\ "base_branch" \in Keys(cleaned) <=> Truthy(AndGet(Get(data, "base"), "ref"))

\* C20 witness: a pull request whose head is null and which has neither merged nor
\* user was cleaned into an object with base_branch and without head_branch
PullRequestWithoutHead ==
    /\ pc = "done" /\ type = "pull_request" /\ data.t = "object"
    /\ Get(data, "head") = Null /\ Keys(data) \cap {"merged", "merged_at", "user"} = {}
    /\ cleaned.t = "object" /\ errorLog = <<>>
    /\ Get(cleaned, "base_branch") = Str(<<"m">>)
    /\ Keys(cleaned) \cap {"head_branch", "merged", "merged_at", "user"} = {}

(***************************************************************************)
(* Properties of the formatter (under SpecFormat)                          *)
(***************************************************************************)
\* C5: formatForHumans never lets an error reach its caller: when rendering raises
\* (as it does on null, on undefined and on an array holding null) it returns the
\* JSON dump of its input, otherwise the rendered text; what it returns is always
\* a string.
FormatNeverThrows ==
    pc = "done" =>
        /\ ~raised
        /\ formatted.t = "string"
        /\ errorLog # <<>> => formatted = Str(<<"Data:\n">> \o JsonDump(data))
        /\ errorLog = <<>> =>
              /\ ~formatTry(data, type).thrown
              /\ formatted = Str(formatTry(data, type).val)
        /\ (Nullish(data) \/ (IsArray(data) /\ Null \in Range(data.v))) =>
              /\ errorLog # <<>>
              /\ Len(formatted.v) >= 2 /\ formatted.v[1] = "Data:\n"

\* C5 witness: a repository list whose second element is null was formatted;
\* rendering raised and the JSON dump of the list came back
FormatFellBack ==
    /\ pc = "done" /\ type = "repository"
    /\ IsArray(data) /\ Len(data.v) = 2 /\ data.v[1].t = "object" /\ data.v[2] = Null
    /\ errorLog # <<>>
    /\ formatted.t = "string" /\ formatted.v[1] = "Data:\n" /\ formatted.v[2] = "["

\* the kinds formatForHumans has a case for
KnownKinds == Kinds \ {""}

\* the sentence each case returns for an empty array
NoneFound ==
    [branch |-> "No branches found.", repository |-> "No repositories found.",
     pull_request |-> "No pull requests found.", issue |-> "No issues found.",
     user |-> "No users found.", tag |-> "No tags found.", release |-> "No releases found."]

\* C12: for every kind, known or not, formatForHumans applied to an empty array
\* does not throw and returns a non-empty string; for each known kind that string
\* is the kind's own "none found" sentence.
EmptyListSentence ==
    (pc = "done" /\ data = Arr(<<>>)) =>
        /\ ~raised /\ errorLog = <<>>
        /\ formatted.t = "string" /\ formatted.v # <<>>
        /\ type \in KnownKinds => formatted = Str(<<NoneFound[type]>>)

\* C12 witness: an empty issue list gave the sentence of the issues
EmptyIssueList ==
    pc = "done" /\ data = Arr(<<>>) /\ type = "issue" /\ formatted = Str(<<"No issues found.">>)

\* what follows the count in the header of each kind's list
ListNoun ==
    [branch |-> " branches:\n\n", repository |-> " repositories:\n\n",
     pull_request |-> " pull requests:\n\n", issue |-> " issues:\n\n",
     user |-> " users:\n\n", tag |-> " tags:\n\n", release |-> " releases:\n\n"]

\* the block a kind's list writes for its index-th element
BlockOf(kind, item, index) ==
    CASE kind = "branch" -> branchBlock(item, index)
      [] kind = "repository" -> repositoryBlock(item, index)
      [] kind = "pull_request" -> pullRequestBlock(item, index)
      [] kind = "issue" -> issueBlock(item, index)
      [] kind = "user" -> userBlock(item, index)
      [] kind = "tag" -> tagBlock(item, index)
      [] OTHER -> releaseBlock(item, index)

RECURSIVE BlocksInOrder(_, _, _)
\* the blocks of the first n elements, one after another
BlocksInOrder(kind, items, n) ==
    IF n = 0 THEN <<>>
    ELSE BlocksInOrder(kind, items, n - 1) \o BlockOf(kind, items[n], n).val

\* the numbers the blocks of a text carry: what stands before each ". " that opens one
BlockNumbers(text) ==
    LET at == SelectSeq([i \in 1..Len(text) |-> i],
                        LAMBDA i : i > 1 /\ text[i] \in {". ", ". ["})
    IN [k \in DOMAIN at |-> text[at[k] - 1]]

\* the field each label of a rendered text stands for
FieldOf ==
    [a \in {"protection: ", "latest commit: ", "protection rules: enabled\n",
            "description: ", "link: ", "language: ", "stars: ", "owner: ", "topics: ",
            "updated: ", "author: ", "created: ", "merged: ", "merged at: ",
            "closed at: ", "home: ", "commit: ", "   commit: ", "   [draft]\n",
            "status: draft\n", "   [prerelease]\n", "type: prerelease\n",
            "   published: ", "published: ", "   description: ", "description:\n",
            "   link: ", "assets: "} |->
        CASE a = "protection: " -> "protected"
          [] a = "latest commit: " -> "commit_sha"
          [] a = "protection rules: enabled\n" -> "protection_enabled"
          [] a \in {"description: ", "   description: ", "description:\n"} -> "description"
          [] a \in {"link: ", "   link: "} -> "html_url"
          [] a = "language: " -> "language"
          [] a = "stars: " -> "stars"
          [] a = "owner: " -> "belongsTo"
          [] a = "topics: " -> "topics"
          [] a = "updated: " -> "updated_at"
          [] a = "author: " -> "user"
          [] a = "created: " -> "created_at"
          [] a = "merged: " -> "merged"
          [] a = "merged at: " -> "merged_at"
          [] a = "closed at: " -> "closed_at"
          [] a = "home: " -> "html_url"
          [] a \in {"commit: ", "   commit: "} -> "commit"
          [] a \in {"   [draft]\n", "status: draft\n"} -> "draft"
          [] a \in {"   [prerelease]\n", "type: prerelease\n"} -> "prerelease"
          [] a \in {"   published: ", "published: "} -> "published_at"
          [] OTHER -> "assets_url"]

\* the fields a rendered text shows below its title
ShownFields(text) == {FieldOf[a] : a \in Range(text) \cap DOMAIN FieldOf}

\* a list of one to MaxArr records of a known kind was rendered
RenderedList ==
    /\ pc = "done" /\ type \in KnownKinds
    /\ IsArray(data) /\ Len(data.v) >= 1 /\ \A i \in DOMAIN data.v : data.v[i].t = "object"

\* a single record of a known kind was rendered
RenderedSingle == pc = "done" /\ type \in KnownKinds /\ data.t = "object"

\* the header states the count and the blocks are numbered 1..N, in input order
CountedAndNumbered ==
    /\ errorLog = <<>>
    /\ formatted = Str(<<"Found ">> \o NumStr(Len(data.v)) \o <<ListNoun[type]>>
                       \o BlocksInOrder(type, data.v, Len(data.v)))
    /\ BlockNumbers(formatted.v) = [k \in 1..Len(data.v) |-> NumStr(k)[1]]

\* C13 as claimed: for every known kind, a list of N >= 1 well-formed cleaned records
\* is rendered as a header stating N and N blocks numbered 1..N in input order; a
\* single record is rendered without a count header, showing the fields its block
\* in a list shows.
ListCountedSingleSame ==
    /\ RenderedList => CountedAndNumbered
    /\ (RenderedSingle /\ errorLog = <<>>) =>
          /\ "Found " \notin Range(formatted.v)
          /\ ShownFields(formatted.v)
               = ShownFields(formatForHumans(Arr(<<data>>), type).text.v)

\* C13: the same, except that a single release also shows its assets link, which a
\* release in a list does not.
ListCountedSingleSameButAssets ==
    /\ RenderedList => CountedAndNumbered
    /\ (RenderedSingle /\ errorLog = <<>>) =>
          /\ "Found " \notin Range(formatted.v)
          /\ ShownFields(formatted.v)
                \ (IF type = "release" THEN {"assets_url"} ELSE {})
               = ShownFields(formatForHumans(Arr(<<data>>), type).text.v)

\* C13 witness: two pull requests were rendered under the header "Found 2", the
\* blocks numbered 1 and 2
TwoPullRequestsNumbered ==
    /\ RenderedList /\ type = "pull_request" /\ Len(data.v) = 2
    /\ data.v[1] # data.v[2]
    /\ SubSeq(formatted.v, 1, 2) = <<"Found ", "2">>
    /\ BlockNumbers(formatted.v) = <<"1", "2">>

\* the date fields each kind renders, each with the label of its line
DateLabels(kind) ==
    CASE kind = "repository" -> {<<"updated_at", "updated: ">>}
      [] kind = "pull_request" -> {<<"created_at", "created: ">>, <<"merged_at", "merged at: ">>}
      [] kind = "issue" -> {<<"created_at", "created: ">>, <<"closed_at", "closed at: ">>}
      [] kind = "release" -> {<<"published_at", "published: ">>}
      [] OTHER -> {}

\* the text has a line that starts with the label and goes on with `what`
Shows(text, label, what) ==
    \E i \in DOMAIN text :
        /\ text[i] = label /\ i + Len(what) <= Len(text)
        /\ SubSeq(text, i + 1, i + Len(what)) = what

\* what the line of a date is to say
DateOrPlaceholder(at) ==
    IF Truthy(at) /\ DateValid(at) THEN LocaleString(at) ELSE <<"unknown time">>

\* C14: for every kind and each date field the formatter prints (created_at,
\* updated_at, merged_at, closed_at, published_at), a missing or unparseable value
\* is shown as the "unknown time" placeholder, never as the text of an invalid
\* date, and a parseable one as the locale date and time; formatting does not throw.
DatesShownOrPlaceholder ==
    (pc = "done" /\ data.t = "object" /\ type \in KnownKinds) =>
        /\ ~raised
        /\ errorLog = <<>> =>
              /\ "Invalid Date" \notin Range(formatted.v)
              /\ \A p \in DateLabels(type) :
                    Shows(formatted.v, p[2], DateOrPlaceholder(Get(data, p[1])))

\* where C14 fails: an issue whose created_at cannot be parsed was rendered, and
\* the line of the date reads "Invalid Date"
InvalidDateShown ==
    /\ pc = "done" /\ type = "issue" /\ data.t = "object"
    /\ Get(data, "created_at") = BadDate
    /\ Shows(formatted.v, "created: ", <<"Invalid Date">>)

\* the free-text field each kind renders, with the label of its line in a list and
\* alone
TextLabels(kind) ==
    CASE kind \in {"repository", "user"} ->
             [field |-> "description", inList |-> "description: ", alone |-> "description: "]
      [] OTHER -> [field |-> "body", inList |-> "   description: ", alone |-> "description:\n"]

\* the records a rendered value holds
RecordsOf(d) == IF IsArray(d) THEN d.v ELSE <<d>>

\* a record or a list of records of a kind that prints free text was rendered
RenderedText ==
    /\ pc = "done" /\ type \in {"repository", "user", "release"} /\ errorLog = <<>>
    /\ \A i \in DOMAIN RecordsOf(data) : RecordsOf(data)[i].t = "object"

\* the line of record rec's free text carries `what`
TextLine(rec, what) ==
    LET l == TextLabels(type)
        free == Get(rec, l.field)
    IN Truthy(free) =>
          Shows(formatted.v, IF IsArray(data) THEN l.inList ELSE l.alone, what \o <<"\n">>)

\* C15 as claimed: whenever formatForHumans prints a body or a description, alone
\* or in a list (release lists included), the text printed is exactly the value of
\* the cleaned field.
FreeTextVerbatim ==
    RenderedText =>
        \A i \in DOMAIN RecordsOf(data) :
            TextLine(RecordsOf(data)[i], ToStr(Get(RecordsOf(data)[i], TextLabels(type).field)))

\* C15: the same, except in a release list, where a body of more than 100
\* characters is printed as its first 100 characters and "...".
FreeTextVerbatimButReleaseList ==
    RenderedText =>
        \A i \in DOMAIN RecordsOf(data) :
            LET free == Get(RecordsOf(data)[i], TextLabels(type).field)
            IN TextLine(RecordsOf(data)[i],
                        IF type = "release" /\ IsArray(data) /\ LongerThan(free, BodyPreview)
                        THEN Substring0(free.v, BodyPreview) \o Ellipsis
                        ELSE ToStr(free))

\* C15 witness: a release list whose first body is longer than 100 characters was
\* rendered with the body cut to 100 characters and "..."
ReleaseListBodyCut ==
    /\ RenderedText /\ type = "release" /\ IsArray(data) /\ Len(data.v) >= 1
    /\ LongerThan(Get(data.v[1], "body"), BodyPreview)
    /\ Shows(formatted.v, "   description: ",
             Substring0(Get(data.v[1], "body").v, BodyPreview) \o Ellipsis \o <<"\n">>)

\* C21: for every repository object whose stargazers_count is a number n >= 0,
\* cleaning as kind 'repository' yields a stars field equal to n, and formatting
\* the cleaned object as kind 'repository' yields a text holding the star label
\* together with n.
StarsKeptAndShown ==
    (/\ pc = "done" /\ type = "repository" /\ data.t = "object"
     /\ Get(data, "stargazers_count").t = "number") =>
        /\ errorLog = <<>>
        /\ Get(cleaned, "stars") = Get(data, "stargazers_count")
        /\ Shows(formatForHumans(cleaned, "repository").text.v, "stars: ",
                 ToStr(Get(data, "stargazers_count")) \o <<"\n">>)

\* where C21 fails: a repository without stars was cleaned, stars is 0 in the
\* result, and the text written for the result has no line for the stars
NoStarsNotShown ==
    /\ pc = "done" /\ type = "repository" /\ data.t = "object"
    /\ Get(data, "stargazers_count") = Num(0)
    /\ Get(cleaned, "stars") = Num(0)
    /\ "stars: " \notin Range(formatForHumans(cleaned, "repository").text.v)

\* a repository with 5 stars was cleaned and the text written for the result
\* reads "stars: 5"
FiveStarsShown ==
    /\ pc = "done" /\ type = "repository" /\ data.t = "object"
    /\ Get(cleaned, "stars") = Num(5)
    /\ Shows(formatForHumans(cleaned, "repository").text.v, "stars: ", <<"5", "\n">>)

(***************************************************************************)
(* The upstream: the octokit.rest methods the handlers await               *)
(***************************************************************************)
\* records as the upstream sends them, by the entity a method answers with
Samples ==
    [repository |->
        <<Obj("id" :> Num(1) @@ "name" :> Str(<<"r">>) @@ "full_name" :> Str(<<"u", "/", "r">>)
              @@ "html_url" :> Str(<<"h">>) @@ "owner" :> Obj("login" :> Str(<<"u">>))
              @@ "stargazers_count" :> Num(0) @@ "updated_at" :> Date
              @@ "node_id" :> Str(<<"x">>)),
          Obj("id" :> Num(2) @@ "name" :> Str(<<"q">>) @@ "language" :> Str(<<"T", "S">>)
              @@ "description" :> Str(Text(TruncLimit + 1)))>>,
     user |->
        <<Obj("login" :> Str(<<"v">>) @@ "id" :> Num(7) @@ "html_url" :> Str(<<"h">>)),
          Obj("login" :> Str(<<"w">>) @@ "id" :> Num(8))>>,
     ref |-> <<Obj("ref" :> Str(<<"b">>) @@ "object" :> Obj("sha" :> Sha))>>,
     branch |->
        <<Obj("name" :> Str(<<"m">>) @@ "protected" :> Bool(TRUE)
              @@ "commit" :> Obj("sha" :> Sha)),
          Obj("name" :> Str(<<"d">>) @@ "protected" :> Bool(FALSE))>>,
     pull_request |->
        <<Obj("number" :> Num(4) @@ "title" :> Str(<<"p">>)
              @@ "state" :> Str(<<"o", "p", "e", "n">>)
              @@ "user" :> Obj("login" :> Str(<<"v">>)) @@ "created_at" :> Date
              @@ "head" :> Obj("ref" :> Str(<<"f">>)) @@ "base" :> Obj("ref" :> Str(<<"m">>))
              @@ "merged" :> Bool(FALSE) @@ "html_url" :> Str(<<"h">>)),
          Obj("number" :> Num(5) @@ "title" :> Str(<<"q">>)
              @@ "user" :> Obj("login" :> Str(<<"u">>)))>>,
     merge |-> <<Obj("sha" :> Sha @@ "merged" :> Bool(TRUE) @@ "message" :> Str(<<"k">>))>>,
     comment |->
        <<Obj("id" :> Num(3) @@ "user" :> Obj("login" :> Str(<<"w">>))
              @@ "created_at" :> Date @@ "body" :> Str(<<"c">>) @@ "html_url" :> Str(<<"h">>)),
          Obj("id" :> Num(6) @@ "user" :> Obj("login" :> Str(<<"a", "[bot]">>))
              @@ "created_at" :> Str(<<"2", "0", "2", "2">>) @@ "body" :> Str(<<"n">>))>>,
     review_comment |->
        <<Obj("id" :> Num(3) @@ "user" :> Obj("login" :> Str(<<"w">>))
              @@ "created_at" :> Str(<<"2", "0", "2", "3">>) @@ "body" :> Str(<<"c">>)
              @@ "html_url" :> Str(<<"h">>)
              @@ "path" :> Str(<<"s">>) @@ "line" :> Num(2) @@ "commit_id" :> Sha),
          Obj("id" :> Num(6) @@ "user" :> Null
              @@ "created_at" :> Str(<<"2", "0", "2", "1">>) @@ "body" :> Str(<<"n">>))>>,
     issue |->
        <<Obj("number" :> Num(9) @@ "title" :> Str(<<"i">>)
              @@ "state" :> Str(<<"c", "l", "o", "s", "e", "d">>)
              @@ "user" :> Obj("login" :> Str(<<"v">>)) @@ "created_at" :> Date
              @@ "labels" :> Arr(<<Obj("name" :> Str(<<"l">>))>>)
              @@ "body" :> Str(<<"b">>) @@ "html_url" :> Str(<<"h">>)),
          Obj("number" :> Num(8) @@ "title" :> Str(<<"j">>)
              @@ "user" :> Obj("login" :> Str(<<"u">>)))>>,
     content |->
        <<Obj("name" :> Str(<<"f">>) @@ "path" :> Str(<<"s", "/", "f">>) @@ "size" :> Num(4)
              @@ "type" :> Str(<<"f", "i", "l", "e">>)
              @@ "content" :> Str(<<"YWJj", "Cg==", "ZGVm", "Cg==", "YQo=">>)),
          Obj("name" :> Str(<<"l">>) @@ "path" :> Str(<<"l">>) @@ "size" :> Num(0)
              @@ "type" :> Str(<<"s", "y", "m", "l", "i", "n", "k">>)),
          Arr(<<Obj("name" :> Str(<<"s">>) @@ "type" :> Str(<<"d", "i", "r">>)
                    @@ "size" :> Num(0)),
                Obj("name" :> Str(<<"f">>) @@ "type" :> Str(<<"f", "i", "l", "e">>)
                    @@ "size" :> Num(4))>>)>>,
     file_commit |->
        <<Obj("content" :> Obj("name" :> Str(<<"f">>)) @@ "commit" :> Obj("sha" :> Sha))>>,
     commit |->
        <<Obj("sha" :> Sha @@ "commit" :> Obj("message" :> Str(<<"k">>))
              @@ "html_url" :> Str(<<"h">>))>>,
     tag |->
        <<Obj("name" :> Str(<<"v", "1">>) @@ "commit" :> Obj("sha" :> Sha)),
          Obj("name" :> Str(<<"v", "2">>))>>,
     release |->
        <<Obj("id" :> Num(1) @@ "name" :> Str(<<"v">>) @@ "tag_name" :> Str(<<"v", "1">>)
              @@ "body" :> Str(Text(BodyPreview + 1)) @@ "draft" :> Bool(FALSE)
              @@ "published_at" :> Date @@ "html_url" :> Str(<<"h">>)),
          Obj("id" :> Num(2) @@ "tag_name" :> Str(<<"v", "2">>) @@ "draft" :> Bool(TRUE))>>,
     topics |-> <<Obj("names" :> Arr(<<Str(<<"t">>)>>)),
                  Obj("names" :> Arr(<<Str(<<"a">>), Str(<<"b">>)>>))>>,
     none |-> <<Undef>>]

\* the methods: the entity each answers with, and whether it answers with a list
One(e) == [of |-> e, list |-> FALSE]
Many(e) == [of |-> e, list |-> TRUE]

Methods ==
    "repos.listForAuthenticatedUser" :> Many("repository")
    @@ "repos.createForAuthenticatedUser" :> One("repository")
    @@ "repos.get" :> One("repository")
    @@ "repos.replaceAllTopics" :> One("topics")
    @@ "repos.update" :> One("repository")
    @@ "repos.delete" :> One("none")
    @@ "repos.listContributors" :> Many("user")
    @@ "git.createRef" :> One("ref")
    @@ "repos.getBranch" :> One("branch")
    @@ "repos.listBranches" :> Many("branch")
    @@ "git.deleteRef" :> One("none")
    @@ "pulls.create" :> One("pull_request")
    @@ "pulls.get" :> One("pull_request")
    @@ "pulls.list" :> Many("pull_request")
    @@ "pulls.update" :> One("pull_request")
    @@ "pulls.merge" :> One("merge")
    @@ "issues.listComments" :> Many("comment")
    @@ "pulls.listReviewComments" :> Many("review_comment")
    @@ "issues.createComment" :> One("comment")
    @@ "pulls.createReviewComment" :> One("review_comment")
    @@ "issues.create" :> One("issue")
    @@ "issues.get" :> One("issue")
    @@ "issues.listForRepo" :> Many("issue")
    @@ "issues.update" :> One("issue")
    @@ "users.listFollowingForUser" :> Many("user")
    @@ "repos.listForUser" :> Many("repository")
    @@ "repos.getContent" :> One("content")
    @@ "repos.createOrUpdateFileContents" :> One("file_commit")
    @@ "repos.listCommits" :> Many("commit")
    @@ "repos.getCommit" :> One("commit")
    @@ "git.createCommit" :> One("commit")
    @@ "repos.listTags" :> Many("tag")
    @@ "repos.createRelease" :> One("release")
    @@ "repos.listReleases" :> Many("release")
    @@ "repos.getRelease" :> One("release")
    @@ "repos.updateRelease" :> One("release")
    @@ "repos.deleteRelease" :> One("none")

\* the lists a method may answer with: none, any one of the samples, all of them
Lists(e) == {<<>>, Samples[e]} \cup {<<Samples[e][i]>> : i \in DOMAIN Samples[e]}

\* result.data of a fulfilled call
Replies(api) ==
    IF Methods[api].list
    THEN {Arr(l) : l \in Lists(Methods[api].of)}
    ELSE Range(Samples[Methods[api].of])

\* the errors a rejected call throws; the last is the request timeout expiring
Failures ==
    {Obj("status" :> Num(404) @@ "message" :> Str(<<"Not Found">>)),
     Obj("status" :> Num(500) @@ "message" :> Str(<<"Server Error">>)),
     Obj("status" :> Num(500) @@ "message" :> Str(<<"network timeout">>))}

\* how an awaited call settles
Outcomes(api) ==
    {[ok |-> TRUE, data |-> d, error |-> Undef] : d \in Replies(api)}
        \cup {[ok |-> FALSE, data |-> Undef, error |-> e] : e \in Failures}

\* the number of items a call returned: result.data.length
ItemsIn(o) == IF o.ok /\ IsArray(o.data) THEN Len(o.data.v) ELSE 0

\* a list of n records of entity e
Repeat(e, n) == [i \in 1..n |-> Samples[e][((i - 1) % Len(Samples[e])) + 1]]

\* how a call for a page of `size` items settles: as any call does, or with a full
\* page, or with one item less
PagedOutcomes(api, size) ==
    Outcomes(api)
        \cup {[ok |-> TRUE, data |-> Arr(Repeat(Methods[api].of, n)), error |-> Undef] :
                 n \in {size - 1, size}}

\* how a call of the scan of listFrequentCommunicators settles: with at most one record
ScanOutcomes(api) == {o \in Outcomes(api) : o.ok => Len(o.data.v) <= 1}

(***************************************************************************)
(* Tool handlers.  A handler runs from where it was resumed to its next    *)
(* await, its return or an exception; AwaitCall, Return and Throw are the  *)
(* three ways such a run ends.                                             *)
(***************************************************************************)
AwaitCall(site, api, arg, loc, log) ==
    [kind |-> "await", site |-> site, api |-> api, arg |-> arg, locals |-> loc, log |-> log]
Return(text, log) == [kind |-> "return", text |-> text, log |-> log]
Throw(error, log) == [kind |-> "throw", error |-> error, log |-> log]

\* the parameters every tool is invoked with here; a tool reads the ones it declares
BaseParams ==
    [owner |-> Str(<<"o">>), repo |-> Str(<<"r">>), username |-> Str(<<"u">>),
     number |-> Num(4), branch |-> Str(<<"b">>), path |-> Undef, ref |-> Undef,
     page |-> Undef, perPage |-> Undef, search |-> Undef, topics |-> Undef,
     given |-> {}, startLine |-> Undef, endLine |-> Undef]

\* { content: [{ type: "text", text }] }
Content(text) == [content |-> <<[type |-> "text", text |-> Str(text)]>>]

\* a slip that rethrows what the catch block caught
handlerCatchRethrows(error) == [rejected |-> TRUE, value |-> Undef]

\* catch (error: any) { return { content: [{ type: "text", text: `Error: ${error.message}` }] } }
handlerCatch(error) ==
    [rejected |-> FALSE, value |-> Content(<<"Error: ">> \o ToStr(Get(error, "message")))]

\* a slip that answers as the other handlers do
listRepositoryContentsCatchGeneric(path, error) ==
    [rejected |-> FALSE, value |-> Content(<<"Error: ">> \o ToStr(Get(error, "message")))]

\* the catch block of listRepositoryContents
\*   "path not found: " is  路径不存在:      "cuowu: " is  错误:
\*   "check the path, or go up one directory." is  请检查路径是否正确，或尝试返回上级目录。
listRepositoryContentsCatch(path, error) ==
    [rejected |-> FALSE,
     value |->
        IF Get(error, "status") = Num(404)
        THEN Content(<<"path not found: ">> \o ToStr(OrElse(path, Str(<<"/">>)))
                     \o <<"\n", "check the path, or go up one directory.">>)
        ELSE Content(<<"cuowu: ">> \o ToStr(Get(error, "message")))]

\* what the invocation settles with when the handler's run ends the way s says
Settled(t, p, s) ==
    IF s.kind = "return" THEN [rejected |-> FALSE, value |-> Content(s.text)]
    ELSE IF t = "listRepositoryContents"
    THEN listRepositoryContentsCatch(OrElse(p.path, Str(<<>>)), s.error)
    ELSE handlerCatch(s.error)

\* the handler suspends at the await s names
Suspend(s) ==
    /\ pc' = s.site
    /\ pending' = [api |-> s.api, arg |-> s.arg]
    /\ locals' = s.locals

\* the handler's promise settles
Finish(r) ==
    /\ pc' = "done"
    /\ pending' = NoCall
    /\ result' = r.value
    /\ raised' = r.rejected
    /\ UNCHANGED locals

\* the record kept of a call awaited at `site` that settled as o
Settlement(site, call, o) ==
    [site |-> site, api |-> call.api, arg |-> call.arg, ok |-> o.ok, error |-> o.error,
     data |-> o.data]

\* the awaited call settled as o and the handler ran on as s says
Proceed(o, s) ==
    /\ calls' = Append(calls, Settlement(pc, pending, o))
    /\ errorLog' = errorLog \o s.log
    /\ IF s.kind = "await"
       THEN /\ Suspend(s)
            /\ UNCHANGED <<result, raised>>
       ELSE Finish(Settled(tool, params, s))
    /\ UNCHANGED lockVars
    /\ UNCHANGED <<tool, params, data, type, dataAfter, cleaned, cleanedRef, recleaned,
                   formatted, other>>

\* what console.error received while cleaning and formatting
PipelineLog(cleanLogged, formatLogged) ==
    (IF cleanLogged THEN <<"Data cleaning error:">> ELSE <<>>)
        \o (IF formatLogged THEN <<"Formatting error:">> ELSE <<>>)

\* return { content: [{ type: "text", text }] } with the formatter's text
ReturnFormatted(cleanLogged, f) == Return(f.text.v, PipelineLog(cleanLogged, f.logged))

\* const text = this.formatForHumans(cleanedData, format), cleanedData being c.out
FormatCleaned(c, format) == ReturnFormatted(c.logged, formatForHumans(c.out, format))

\* this.cleanGitHubResponse(result.data, clean), then this.formatForHumans(..., format)
CleanAndFormat(d, clean, format) == FormatCleaned(cleanGitHubResponse(d, clean), format)

\* data that went through no cleaning
Uncleaned(d) == [out |-> d, logged |-> FALSE]

\* the tools that await one call and answer with its cleaned and formatted data
Piped(api, clean, format) == [api |-> api, clean |-> clean, format |-> format]

Pipelines ==
    "createRepository" :> Piped("repos.createForAuthenticatedUser", "repository", "repository")
    @@ "getRepository" :> Piped("repos.get", "repository", "repository")
    @@ "listContributors" :> Piped("repos.listContributors", "", "repository")
    @@ "createBranch" :> Piped("git.createRef", "", "repository")
    @@ "getBranch" :> Piped("repos.getBranch", "", "repository")
    @@ "listBranches" :> Piped("repos.listBranches", "branch", "branch")
    @@ "createPullRequest" :> Piped("pulls.create", "pull_request", "pull_request")
    @@ "getPullRequest" :> Piped("pulls.get", "pull_request", "pull_request")
    @@ "listPullRequests" :> Piped("pulls.list", "pull_request", "pull_request")
    @@ "updatePullRequest" :> Piped("pulls.update", "pull_request", "pull_request")
    @@ "mergePullRequest" :> Piped("pulls.merge", "none", "repository")
    @@ "createIssue" :> Piped("issues.create", "issue", "issue")
    @@ "getIssue" :> Piped("issues.get", "issue", "issue")
    @@ "listIssues" :> Piped("issues.listForRepo", "issue", "issue")
    @@ "updateIssue" :> Piped("issues.update", "issue", "issue")
    @@ "closeIssue" :> Piped("issues.update", "issue", "issue")
    @@ "updateFileContent" :> Piped("repos.createOrUpdateFileContents", "none", "repository")
    @@ "listCommits" :> Piped("repos.listCommits", "", "repository")
    @@ "getCommit" :> Piped("repos.getCommit", "", "repository")
    @@ "createCommit" :> Piped("git.createCommit", "", "repository")
    @@ "listTags" :> Piped("repos.listTags", "tag", "tag")
    @@ "createRelease" :> Piped("repos.createRelease", "release", "release")
    @@ "listReleases" :> Piped("repos.listReleases", "release", "release")
    @@ "getRelease" :> Piped("repos.getRelease", "release", "release")
    @@ "updateRelease" :> Piped("repos.updateRelease", "release", "release")

\* a slip that issues the call again when it failed
pipelineRunRetries(t, o) ==
    IF ~o.ok THEN AwaitCall("call", Pipelines[t].api, <<>>, EmptyFields, <<>>)
    ELSE IF Pipelines[t].clean = "none"
    THEN FormatCleaned(Uncleaned(o.data), Pipelines[t].format)
    ELSE CleanAndFormat(o.data, Pipelines[t].clean, Pipelines[t].format)

\* the handler of a tool of Pipelines, resumed with the outcome o of its call
pipelineRun(t, o) ==
    IF ~o.ok THEN Throw(o.error, <<>>)
    ELSE IF Pipelines[t].clean = "none"
    THEN FormatCleaned(Uncleaned(o.data), Pipelines[t].format)
    ELSE CleanAndFormat(o.data, Pipelines[t].clean, Pipelines[t].format)

\* the tools that await one call and answer with a fixed sentence
\*   " deleted(zh)." is  已删除。
Deletions ==
    "deleteRepository" :> "repos.delete"
    @@ "deleteBranch" :> "git.deleteRef"
    @@ "deleteRelease" :> "repos.deleteRelease"

deletionRun(t, p, o) ==
    IF ~o.ok THEN Throw(o.error, <<>>)
    ELSE CASE t = "deleteRepository" ->
                Return(<<"Repository ">> \o ToStr(p.owner) \o <<"/">> \o ToStr(p.repo)
                       \o <<" has been deleted.">>, <<>>)
           [] t = "deleteBranch" ->
                Return(<<"Branch ">> \o ToStr(p.branch) \o <<" has been deleted from ">>
                       \o ToStr(p.owner) \o <<"/">> \o ToStr(p.repo) \o <<".">>, <<>>)
           [] t = "deleteRelease" ->
                Return(<<"Release #">> \o ToStr(p.number) \o <<" deleted(zh).">>, <<>>)

(***************************************************************************)
(* listRepositoryContents                                                  *)
(*   "[dir]" "[file]" "[link]" "[?]" are the four icons; "[root]" is       *)
(*   the folder icon followed by 根目录;  "repo: " 仓库:  " (branch: "     *)
(*   (分支:   "path: " 路径:   "file: " 文件:   "size: " 大小:             *)
(*   "type: " 类型:   "tip: use path: " 提示：使用 path:                   *)
(*   " to go up" 返回上级目录                                              *)
(*   "use getFileContent to read the file." 如需查看文件内容，请使用       *)
(*   getFileContent 工具。                                                 *)
(***************************************************************************)
RECURSIVE Pow(_, _)
Pow(b, e) == IF e = 0 THEN 1 ELSE b * Pow(b, e - 1)

RECURSIVE Log1024(_)
\* Math.floor(Math.log(bytes) / Math.log(1024)) for bytes >= 1
Log1024(bytes) == IF bytes < 1024 THEN 0 ELSE 1 + Log1024(bytes \div 1024)

\* parseFloat(x.toFixed(1)) for x = tenths / 10
OneDecimal(tenths) ==
    NumStr(tenths \div 10)
        \o (IF tenths % 10 = 0 THEN <<>> ELSE <<".">> \o NumStr(tenths % 10))

formatFileSize(bytes) ==
    IF bytes = Num(0) THEN <<"0 Bytes">>
    ELSE IF bytes.t # "number" \/ bytes.v < 0 THEN <<"NaN undefined">>
    ELSE OneDecimal((bytes.v * 10 + Pow(1024, Log1024(bytes.v)) \div 2)
                        \div Pow(1024, Log1024(bytes.v)))
         \o <<" ", <<"Bytes", "KB", "MB", "GB", "TB">>[Log1024(bytes.v) + 1]>>

RECURSIVE PathParts(_, _)
\* path.split('/').filter(p => p): the non-empty parts of s, cur being the part begun
PathParts(s, cur) ==
    IF s = <<>> THEN (IF cur = <<>> THEN <<>> ELSE <<cur>>)
    ELSE IF Head(s) = "/"
    THEN (IF cur = <<>> THEN <<>> ELSE <<cur>>) \o PathParts(Tail(s), <<>>)
    ELSE PathParts(Tail(s), Append(cur, Head(s)))

RECURSIVE JoinParts(_)
\* parts.join('/')
JoinParts(parts) ==
    IF parts = <<>> THEN <<>>
    ELSE Head(parts) \o (IF Len(parts) > 1 THEN <<"/">> \o JoinParts(Tail(parts)) ELSE <<>>)

\* one line of a directory listing
contentItem(item) ==
    (CASE Get(item, "type") = Str(<<"d", "i", "r">>) -> <<"[dir]">>
       [] Get(item, "type") = Str(<<"f", "i", "l", "e">>) -> <<"[file]">>
       [] Get(item, "type") = Str(<<"s", "y", "m", "l", "i", "n", "k">>) -> <<"[link]">>
       [] OTHER -> <<"[?]">>)
    \o <<" ">> \o ToStr(Get(item, "name")) \o <<" ">>
    \o (IF Truthy(Get(item, "size"))
        THEN <<"(">> \o formatFileSize(Get(item, "size")) \o <<")">> ELSE <<>>)
    \o <<" ">>
    \o (IF Get(item, "type") = Str(<<"d", "i", "r">>) THEN <<"/">> ELSE <<>>)

RECURSIVE contentItems(_)
\* result.data.map(...).join('\n')
contentItems(items) ==
    IF items = <<>> THEN <<>>
    ELSE contentItem(Head(items))
         \o (IF Len(items) > 1 THEN <<"\n">> \o contentItems(Tail(items)) ELSE <<>>)

\* the text for a directory, parts being pathParts
directoryText(p, path, parts, items) ==
    <<"repo: ">> \o ToStr(p.owner) \o <<"/">> \o ToStr(p.repo)
    \o (IF Truthy(p.ref) THEN <<" (branch: ">> \o ToStr(p.ref) \o <<")">> ELSE <<>>)
    \o <<"\n", "path: ", "[root]">>
    \o (IF Len(parts) > 0 THEN <<"/">> \o JoinParts(parts) ELSE <<>>)
    \o <<"\n\n">> \o contentItems(items)
    \o (IF Truthy(path)
        THEN <<"\n\n", "tip: use path: ", "\"">>
             \o (IF Len(parts) > 0 THEN JoinParts(SubSeq(parts, 1, Len(parts) - 1)) ELSE <<>>)
             \o <<"\"", " to go up">>
        ELSE <<>>)

fileText(fileData) ==
    <<"file: ">> \o ToStr(Get(fileData, "name"))
    \o <<"\n", "size: ">> \o formatFileSize(Get(fileData, "size"))
    \o <<"\n", "type: ">> \o ToStr(Get(fileData, "type"))
    \o <<"\n", "path: ">> \o ToStr(Get(fileData, "path"))
    \o <<"\n\n", "use getFileContent to read the file.">>

\* the handler resumed with the outcome o of repos.getContent; path = "" by default
listRepositoryContentsRun(p, path, o) ==
    IF ~o.ok THEN Throw(o.error, <<>>)
    ELSE IF IsArray(o.data)
    THEN Return(directoryText(p, path, PathParts(path.v, <<>>), o.data.v), <<>>)
    ELSE Return(fileText(o.data), <<>>)

(***************************************************************************)
(* createPullRequestComment, createPullRequestReviewComment and            *)
(* createIssueComment                                                      *)
(*   "comment added under PR #" 已成功在 PR # ... 下添加评论:              *)
(*   "comment added in the code of PR #" 已成功在 PR # ... 的代码中添加评论*)
(*   "comment added under Issue #" 已成功在 Issue # ... 下添加评论:        *)
(*   "by: " 评论者:   "file: " 文件:   "line: " 行号:   "created: " 创建于:*)
(*   "comment:" 评论内容:   "comment link: " 评论链接:                     *)
(***************************************************************************)
CommentTools ==
    "createPullRequestComment" :> "issues.createComment"
    @@ "createPullRequestReviewComment" :> "pulls.createReviewComment"
    @@ "createIssueComment" :> "issues.createComment"

\* comment.user?.login || 'unknown'
UserLogin(comment) ==
    IF Nullish(Get(comment, "user")) THEN Str(<<"unknown">>)
    ELSE OrElse(Get(Get(comment, "user"), "login"), Str(<<"unknown">>))

commentRun(t, p, o) ==
    IF ~o.ok THEN Throw(o.error, <<>>)
    ELSE Return(
        (CASE t = "createPullRequestComment" -> <<"comment added under PR #">>
           [] t = "createPullRequestReviewComment" -> <<"comment added in the code of PR #">>
           [] t = "createIssueComment" -> <<"comment added under Issue #">>)
        \o ToStr(p.number) \o <<":\n\n">>
        \o <<"by: ">> \o ToStr(UserLogin(o.data)) \o <<"\n">>
        \o (IF t = "createPullRequestReviewComment"
            THEN <<"file: ">> \o ToStr(Get(o.data, "path")) \o <<"\n">>
                 \o <<"line: ">> \o ToStr(Get(o.data, "line")) \o <<"\n">>
            ELSE <<>>)
        \o <<"created: ">> \o LocaleString(Get(o.data, "created_at")) \o <<"\n">>
        \o <<"comment:", "\n">> \o ToStr(Get(o.data, "body")) \o <<"\n\n">>
        \o <<"comment link: ">> \o ToStr(Get(o.data, "html_url")), <<>>)

(***************************************************************************)
(* updateRepository                                                        *)
(***************************************************************************)
\* Object.keys(params).length <= 2 && topicsResult ? repos.get : repos.update
updateRepositoryNext(p, topicsResult, log) ==
    IF p.given = {} /\ Truthy(topicsResult)
    THEN AwaitCall("get", "repos.get", <<>>, [topicsResult |-> topicsResult], log)
    ELSE AwaitCall("update", "repos.update", <<>>, [topicsResult |-> topicsResult], log)

\* a slip that leaves the repository's own topics in the result
withoutTopics(c, topicsResult) == c

\* if (topicsResult && topicsResult.data.names) cleanedData.topics = topicsResult.data.names
withTopics(c, topicsResult) ==
    IF Truthy(topicsResult) /\ Truthy(Get(Get(topicsResult, "data"), "names"))
    THEN [out |-> Put(c.out, "topics", Get(Get(topicsResult, "data"), "names")),
          logged |-> c.logged]
    ELSE c

\* the handler from its start to its first await
updateRepositoryStart(p) ==
    IF p.topics # Undef
    THEN AwaitCall("topics", "repos.replaceAllTopics", <<>>, EmptyFields, <<>>)
    ELSE updateRepositoryNext(p, Undef, <<>>)

\* the handler resumed at site with the outcome o of the call awaited there
\*   "topics update error:" is  更新主题标签出错:
updateRepositoryRun(p, site, loc, o) ==
    IF site = "topics"
    THEN IF o.ok THEN updateRepositoryNext(p, Obj("data" :> o.data), <<>>)
         ELSE updateRepositoryNext(p, Undef, <<"topics update error:">>)
    ELSE IF ~o.ok THEN Throw(o.error, <<>>)
    ELSE FormatCleaned(withTopics(cleanGitHubResponse(o.data, "repository"),
                                  loc.topicsResult), "repository")

(***************************************************************************)
(* getIssueComments and getPullRequestComments                             *)
(*   "state: " 状态:   "author: " 创建者:   "created: " 创建于:            *)
(*   "link: " 链接:   "description:" 描述:   "--- comments (page " and     *)
(*   ") ---"  --- 评论 (第 n 页) ---   "no comments." 没有评论。           *)
(*   " at " 在   " commented:" 评论:   " added a " 添加了                  *)
(*   "comment" 常规评论   "review comment" 代码审查评论                    *)
(*   "--- more comments. use page: " and " for the next page ---"          *)
(*   --- 还有更多评论。使用 page: n 查看下一页 ---                         *)
(*   "merged: " 已合并:   "merged at: " 合并于:   "from branch " 从分支    *)
(*   " to " 到   "unknown(zh)" 未知   "file: " 文件:   ", line: " , 行:    *)
(***************************************************************************)
IssueCommentsPerPage == 30
PullCommentsPerPage == 20

\* page = 1 by default
PageOf(p) == IF p.page = Undef THEN Num(1) ELSE p.page

\* the lines both tools open with; what is the word "Issue" or "PR"
headLines(what, d) ==
    <<what, " #">> \o ToStr(Get(d, "number")) \o <<": ">> \o ToStr(Get(d, "title"))
    \o <<"\n", "state: ">> \o StateWord(d)
    \o <<"\n", "author: ">> \o ToStr(OrElse(Get(d, "user"), Str(<<"unknown">>)))
    \o <<"\n", "created: ">> \o LocaleString(Get(d, "created_at")) \o <<"\n">>

descriptionLines(d) ==
    IF Truthy(Get(d, "body"))
    THEN <<"description:", "\n">> \o ToStr(Get(d, "body")) \o <<"\n\n">> ELSE <<>>

\* a slip that leaves out the test of hasMoreComments
moreLineAlways(more, page) ==
    <<"\n", "--- more comments. use page: ">> \o NumStr(page.v + 1)
    \o <<" for the next page ---", "\n">>

moreLine(more, page) ==
    IF more
    THEN <<"\n", "--- more comments. use page: ">> \o NumStr(page.v + 1)
         \o <<" for the next page ---", "\n">>
    ELSE <<>>

RECURSIVE issueCommentBlocks(_, _)
\* commentsData.forEach((comment, index) => ...), from element `from` on
issueCommentBlocks(comments, from) ==
    IF from > Len(comments) THEN <<>>
    ELSE <<"[">> \o NumStr(from) \o <<"] ">> \o ToStr(UserLogin(comments[from]))
         \o <<" at ">> \o LocaleString(Get(comments[from], "created_at"))
         \o <<" commented:", "\n">>
         \o ToStr(Get(comments[from], "body")) \o <<"\n\n">>
         \o issueCommentBlocks(comments, from + 1)

issueCommentsText(issueData, page, comments) ==
    headLines("Issue", issueData)
    \o <<"link: ">> \o ToStr(Get(issueData, "html_url")) \o <<"\n\n">>
    \o descriptionLines(issueData)
    \o <<"--- comments (page ">> \o ToStr(page) \o <<") ---", "\n\n">>
    \o (IF Len(comments) = 0 THEN <<"no comments.", "\n">>
        ELSE issueCommentBlocks(comments, 1)
             \o moreLine(Len(comments) >= IssueCommentsPerPage, page))

\* const issueData = this.cleanGitHubResponse(...); then the next call is awaited
awaitWith(site, api, field, c) ==
    AwaitCall(site, api, <<>>, field :> c.out, PipelineLog(c.logged, FALSE))

\* a slip that asks for the comments although issues.get failed
getIssueCommentsRunOnFailure(p, site, loc, o) ==
    IF site = "issue"
    THEN awaitWith("comments", "issues.listComments", "issueData",
                   cleanGitHubResponse(IF o.ok THEN o.data ELSE Obj(EmptyFields), "issue"))
    ELSE IF ~o.ok THEN Throw(o.error, <<>>)
    ELSE Return(issueCommentsText(loc.issueData, PageOf(p), o.data.v), <<>>)

getIssueCommentsRun(p, site, loc, o) ==
    IF ~o.ok THEN Throw(o.error, <<>>)
    ELSE IF site = "issue"
    THEN awaitWith("comments", "issues.listComments", "issueData",
                   cleanGitHubResponse(o.data, "issue"))
    ELSE Return(issueCommentsText(loc.issueData, PageOf(p), o.data.v), <<>>)

RECURSIVE DigitsValue(_, _)
\* the number the leading digits of s read as, acc being the value read so far
DigitsValue(s, acc) ==
    IF s = <<>> \/ Head(s) \notin DigitChars THEN acc
    ELSE DigitsValue(Tail(s), acc * 10 + (CHOOSE d \in 0..9 : Digit[d + 1] = Head(s)))

\* new Date(a.created_at).getTime() - new Date(b.created_at).getTime() > 0; the
\* difference is NaN, which sorts as equal, unless both dates are valid
Later(a, b) ==
    /\ Get(a, "created_at").t = "string" /\ DateValid(Get(a, "created_at"))
    /\ Get(b, "created_at").t = "string" /\ DateValid(Get(b, "created_at"))
    /\ DigitsValue(Get(a, "created_at").v, 0) > DigitsValue(Get(b, "created_at").v, 0)

RECURSIVE InsertByTime(_, _)
InsertByTime(sorted, x) ==
    IF sorted = <<>> THEN <<x>>
    ELSE IF Later(sorted[Len(sorted)], x)
    THEN Append(InsertByTime(SubSeq(sorted, 1, Len(sorted) - 1), x), sorted[Len(sorted)])
    ELSE Append(sorted, x)

RECURSIVE SortByTime(_, _)
\* [...].sort(by created_at): a stable sort, done[..] being sorted already
SortByTime(done, rest) ==
    IF rest = <<>> THEN done ELSE SortByTime(InsertByTime(done, Head(rest)), Tail(rest))

\* the comment objects the handler builds, tagged with their type
Tagged(comments, tag) ==
    [i \in DOMAIN comments |-> Put(comments[i], "type", Str(<<tag>>))]

RECURSIVE pullCommentBlocks(_, _)
\* allComments.forEach((comment, index) => ...), from element `from` on
pullCommentBlocks(comments, from) ==
    IF from > Len(comments) THEN <<>>
    ELSE <<"[">> \o NumStr(from) \o <<"] ">> \o ToStr(UserLogin(comments[from]))
         \o <<" at ">> \o LocaleString(Get(comments[from], "created_at"))
         \o <<" added a ">>
         \o (IF Get(comments[from], "type") = Str(<<"issue_comment">>)
             THEN <<"comment">> ELSE <<"review comment">>) \o <<":", "\n">>
         \o (IF Get(comments[from], "type") = Str(<<"review_comment">>)
                /\ Truthy(Get(comments[from], "path"))
             THEN <<"file: ">> \o ToStr(Get(comments[from], "path"))
                  \o (IF Truthy(Get(comments[from], "line"))
                      THEN <<", line: ">> \o ToStr(Get(comments[from], "line")) ELSE <<>>)
                  \o <<"\n">>
             ELSE <<>>)
         \o ToStr(Get(comments[from], "body")) \o <<"\n\n">>
         \o pullCommentBlocks(comments, from + 1)

\* more: hasMoreIssueComments || hasMoreReviewComments
pullCommentsText(prData, page, all, more) ==
    headLines("PR", prData)
    \o (IF Get(prData, "merged") # Undef
        THEN <<"merged: ">> \o (IF Truthy(Get(prData, "merged")) THEN <<"yes">> ELSE <<"no">>)
             \o <<"\n">>
        ELSE <<>>)
    \o (IF Truthy(Get(prData, "merged_at"))
        THEN <<"merged at: ">> \o LocaleString(Get(prData, "merged_at")) \o <<"\n">>
        ELSE <<>>)
    \o <<"from branch ">> \o ToStr(OrElse(Get(prData, "head_branch"), Str(<<"unknown(zh)">>)))
    \o <<" to ">> \o ToStr(OrElse(Get(prData, "base_branch"), Str(<<"unknown(zh)">>)))
    \o <<"\n", "link: ">> \o ToStr(Get(prData, "html_url")) \o <<"\n\n">>
    \o descriptionLines(prData)
    \o <<"--- comments (page ">> \o ToStr(page) \o <<") ---", "\n\n">>
    \o (IF Len(all) = 0 THEN <<"no comments.", "\n">>
        ELSE pullCommentBlocks(all, 1)
             \o moreLine(more, page))

getPullRequestCommentsRun(p, site, loc, o) ==
    IF ~o.ok THEN Throw(o.error, <<>>)
    ELSE CASE site = "pr" ->
                awaitWith("issueComments", "issues.listComments", "prData",
                          cleanGitHubResponse(o.data, "pull_request"))
           [] site = "issueComments" ->
                AwaitCall("reviewComments", "pulls.listReviewComments", <<>>,
                          [prData |-> loc.prData, issueComments |-> o.data.v], <<>>)
           [] site = "reviewComments" ->
                Return(pullCommentsText(
                           loc.prData, PageOf(p),
                           SortByTime(<<>>, Tagged(loc.issueComments, "issue_comment")
                                              \o Tagged(o.data.v, "review_comment")),
                           Len(loc.issueComments) >= PullCommentsPerPage
                               \/ Len(o.data.v) >= PullCommentsPerPage), <<>>)

(***************************************************************************)
(* listFollowing and listFollowingUserRepos                                *)
(*   "user " and " follows nobody." 用户 x 没有关注任何人。                *)
(*   " follows nobody, or the information is empty." 没有关注任何人，      *)
(*   或者信息为空。   " follows these " and " users:" 关注了以下 n 个用户: *)
(*   "home: " 主页:   "description: " 描述:                                *)
(*   "no repositories could be found." 未能查询到任何仓库。                *)
(***************************************************************************)
RECURSIVE followingBlocks(_, _)
\* cleanedList.forEach((user, index) => ...), from element `from` on
followingBlocks(users, from) ==
    IF from > Len(users) THEN <<>>
    ELSE NumStr(from) \o <<". ">>
         \o ToStr(OrElse(Get(users[from], "login"), Get(users[from], "name"))) \o <<"\n">>
         \o (IF Truthy(Get(users[from], "html_url"))
             THEN <<"   ", "home: ">> \o ToStr(Get(users[from], "html_url")) \o <<"\n">>
             ELSE <<>>)
         \o (IF Truthy(Get(users[from], "description"))
             THEN <<"   ", "description: ">> \o ToStr(Get(users[from], "description"))
                  \o <<"\n">>
             ELSE <<>>)
         \o <<"\n">>
         \o followingBlocks(users, from + 1)

\* the answer built from cleanedList, c being what the cleaner returned
followingText(p, c) ==
    Return(<<"user ">> \o ToStr(p.username) \o <<" follows these ">>
           \o NumStr(Len(c.out.v)) \o <<" users:", "\n\n">> \o followingBlocks(c.out.v, 1),
           PipelineLog(c.logged, FALSE))

listFollowingRun(p, o) ==
    IF ~o.ok THEN Throw(o.error, <<>>)
    ELSE IF ~Truthy(o.data) \/ Len(o.data.v) = 0
    THEN Return(<<"user ">> \o ToStr(p.username) \o <<" follows nobody.">>, <<>>)
    ELSE followingText(p, cleanGitHubResponse(o.data, "user"))

\* cleanedRepos.map(r => ({...r, followedByUser: username, belongsTo: followUser.login}))
\* when cleanedRepos is an array, else []
reposWithOwnerMarker(cleanedRepos, username, followUser) ==
    IF IsArray(cleanedRepos)
    THEN [i \in DOMAIN cleanedRepos.v |->
            Put(Put(IF cleanedRepos.v[i].t = "object" THEN cleanedRepos.v[i]
                    ELSE Obj(EmptyFields),
                    "followedByUser", username),
                "belongsTo", Get(followUser, "login"))]
    ELSE <<>>

\* the loop over followingList from its element `rest[1]` on: the next await, or the
\* end of the handler
followingReposLoop(rest, allRepos, log) ==
    IF rest # <<>>
    THEN AwaitCall("repos", "repos.listForUser", ToStr(Get(Head(rest), "login")),
                   [rest |-> rest, allRepos |-> allRepos], log)
    ELSE IF Len(allRepos) = 0 THEN Return(<<"no repositories could be found.">>, log)
    ELSE FormatCleaned([out |-> Arr(allRepos), logged |-> FALSE], "repository")

\* the body of the loop after its await, c being the cleaned repositories
followingReposBody(p, loc, c) ==
    followingReposLoop(Tail(loc.rest),
                       loc.allRepos \o reposWithOwnerMarker(c.out, p.username, Head(loc.rest)),
                       PipelineLog(c.logged, FALSE))

listFollowingUserReposRun(p, site, loc, o) ==
    IF ~o.ok THEN Throw(o.error, <<>>)
    ELSE IF site = "following"
    THEN IF ~Truthy(o.data) \/ Len(o.data.v) = 0
         THEN Return(<<"user ">> \o ToStr(p.username)
                     \o <<" follows nobody, or the information is empty.">>, <<>>)
         ELSE followingReposLoop(o.data.v, <<>>, <<>>)
    ELSE followingReposBody(p, loc, cleanGitHubResponse(o.data, "repository"))

(***************************************************************************)
(* listRepositories                                                        *)
(*   "search \"" and "\" results: found " and " repositories" 搜索 "x"     *)
(*   结果: 找到 n 个仓库   "repository list (page " ", " " per page)"      *)
(*   仓库列表 (第 n 页, 共 m 个/页)   "--- pagination ---" --- 分页导航 ---*)
(*   "current page: " 当前页:   "previous page: use page: " and            *)
(*   " to see the page before" 上一页: 使用 page: n 查看前一页             *)
(*   "next page: use page: " and " to see the next page" 下一页: ...       *)
(*   "tip: remove the search parameter to see all repositories" 提示: 要   *)
(*   查看所有仓库，请移除 search 参数   "tip: the search parameter         *)
(*   searches name, description or language" 提示: 使用 search 参数...     *)
(* total_items (from the link header) is computed and never written.       *)
(***************************************************************************)
DefaultPerPage == 30

RECURSIVE Trim(_)
\* s.trim()
Trim(s) ==
    IF s = <<>> THEN s
    ELSE IF Head(s) = " " THEN Trim(Tail(s))
    ELSE IF s[Len(s)] = " " THEN Trim(SubSeq(s, 1, Len(s) - 1))
    ELSE s

\* s.toLowerCase(), over the letters the samples hold
ToLower(s) ==
    [i \in DOMAIN s |-> CASE s[i] = "T" -> "t" [] s[i] = "S" -> "s" [] OTHER -> s[i]]

\* s.includes(sub)
Includes(s, sub) ==
    \E i \in 0..(Len(s) - Len(sub)) : SubSeq(s, i + 1, i + Len(sub)) = sub

\* x && x.toLowerCase().includes(searchLower)
FieldMatches(x, searchLower) ==
    Truthy(x) /\ x.t = "string" /\ Includes(ToLower(x.v), searchLower)

\* the predicate of filteredData.filter(...)
repoMatches(repo, searchLower) ==
    \/ FieldMatches(Get(repo, "name"), searchLower)
    \/ FieldMatches(Get(repo, "full_name"), searchLower)
    \/ FieldMatches(Get(repo, "description"), searchLower)
    \/ FieldMatches(Get(repo, "language"), searchLower)
    \/ /\ IsArray(Get(repo, "topics"))
       /\ \E i \in DOMAIN Get(repo, "topics").v :
            FieldMatches(Get(repo, "topics").v[i], searchLower)

RECURSIVE filterRepositories(_, _)
\* filteredData.filter(repo => ...)
filterRepositories(repos, searchLower) ==
    IF repos = <<>> THEN <<>>
    ELSE (IF repoMatches(Head(repos), searchLower) THEN <<Head(repos)>> ELSE <<>>)
         \o filterRepositories(Tail(repos), searchLower)

\* filteredData
searchRepositories(repos, search) ==
    IF Truthy(search) /\ Trim(search.v) # <<>>
    THEN filterRepositories(repos, Trim(ToLower(search.v)))
    ELSE repos

\* the text around the formatter's: f is what formatForHumans returned
repositoriesText(search, page, perPage, nFound, nReturned, cleanLogged, f) ==
    Return(
        (IF Truthy(search)
         THEN <<"search \"">> \o ToStr(search) \o <<"\" results: found ">>
              \o NumStr(nFound) \o <<" repositories", "\n\n">>
         ELSE <<"repository list (page ">> \o ToStr(page) \o <<", ">> \o ToStr(perPage)
              \o <<" per page)", "\n\n">>)
        \o f.text.v
        \o <<"\n", "--- pagination ---", "\n", "current page: ">> \o ToStr(page) \o <<"\n">>
        \o (IF page.v > 1
            THEN <<"previous page: use page: ">> \o NumStr(page.v - 1)
                 \o <<" to see the page before", "\n">>
            ELSE <<>>)
        \o (IF Num(nReturned) = perPage
            THEN <<"next page: use page: ">> \o NumStr(page.v + 1)
                 \o <<" to see the next page", "\n">>
            ELSE <<>>)
        \o (IF Truthy(search)
            THEN <<"tip: remove the search parameter to see all repositories", "\n">>
            ELSE <<"tip: the search parameter searches name, description or language", "\n">>),
        PipelineLog(cleanLogged, f.logged))

\* formattedText += this.formatForHumans(cleanedData, 'repository')
repositoriesFormatted(p, nFound, nReturned, c) ==
    repositoriesText(p.search, PageOf(p),
                     IF p.perPage = Undef THEN Num(DefaultPerPage) ELSE p.perPage,
                     nFound, nReturned, c.logged, formatForHumans(c.out, "repository"))

\* const cleanedData = this.cleanGitHubResponse(filteredData, 'repository')
repositoriesCleaned(p, filteredData, nReturned) ==
    repositoriesFormatted(p, Len(filteredData), nReturned,
                          cleanGitHubResponse(Arr(filteredData), "repository"))

listRepositoriesRun(p, o) ==
    IF ~o.ok THEN Throw(o.error, <<>>)
    ELSE repositoriesCleaned(p, searchRepositories(o.data.v, p.search), Len(o.data.v))

(***************************************************************************)
(* getFileContent                                                          *)
(*   "the path is a directory holding:" 目标路径是一个目录，包含以下内容:  *)
(*   "cannot read the content; it may not be a regular file." 无法读取文件 *)
(*   内容，可能不是一个普通文件。   "file: " 文件:   "showing lines "      *)
(*   " to " " (of " " lines)" 显示第 a 至 b 行 (共 n 行)                   *)
(*   "tip: use startLine: " " to read on" 提示: 使用 startLine: n 继续阅读 *)
(*   后续内容   ", endLine: " " to see what comes before" 查看之前的内容   *)
(*   "file content (base64 decoded" 文件内容 (base64解码后                 *)
(*   ", truncated" , 已截断   "...(too long, truncated)" ...（内容过长，   *)
(*   已截断）   "tip: use startLine and endLine to see a range of lines"   *)
(*   提示: 使用 startLine 和 endLine 参数查看特定行范围                    *)
(***************************************************************************)
ContentLimit == 2000
DefaultSpan == 199

\* what each group of four base64 characters decodes to
Base64 ==
    [YWJj |-> <<"a", "b", "c">>, ZGVm |-> <<"d", "e", "f">>, YQo |-> <<"a", "\n">>,
     Cg |-> <<"\n">>]

RECURSIVE Decode(_)
\* Buffer.from(content, 'base64').toString('utf-8'), content being groups of four
Decode(groups) ==
    IF groups = <<>> THEN <<>>
    ELSE (CASE Head(groups) = "YWJj" -> Base64.YWJj
            [] Head(groups) = "ZGVm" -> Base64.ZGVm
            [] Head(groups) = "YQo=" -> Base64.YQo
            [] Head(groups) = "Cg==" -> Base64.Cg)
         \o Decode(Tail(groups))

\* the lines of two pieces of text put together: the last line of the first piece
\* goes on in the first line of the second
SplitJoined(l, r) ==
    SubSeq(l, 1, Len(l) - 1) \o <<l[Len(l)] \o r[1]>> \o SubSeq(r, 2, Len(r))

RECURSIVE SplitLines(_, _)
\* s.split('\n'), cur being the line begun; s is split by halves
SplitLines(s, cur) ==
    IF s = <<>> THEN <<cur>>
    ELSE IF Len(s) = 1
    THEN IF s[1] = "\n" THEN <<cur, <<>>>> ELSE <<Append(cur, s[1])>>
    ELSE SplitJoined(SplitLines(SubSeq(s, 1, Len(s) \div 2), cur),
                     SplitLines(SubSeq(s, (Len(s) \div 2) + 1, Len(s)), <<>>))

RECURSIVE JoinLines(_)
\* lines.join('\n'); the lines are joined by halves
JoinLines(lines) ==
    IF lines = <<>> THEN <<>>
    ELSE IF Len(lines) = 1 THEN lines[1]
    ELSE JoinLines(SubSeq(lines, 1, Len(lines) \div 2)) \o <<"\n">>
         \o JoinLines(SubSeq(lines, (Len(lines) \div 2) + 1, Len(lines)))

Min(a, b) == IF a < b THEN a ELSE b
Max(a, b) == IF a > b THEN a ELSE b

\* lines.slice(begin, end) for begin >= 0; a negative end counts from the end
Slice(lines, begin, end) ==
    SubSeq(lines, begin + 1, IF end < 0 THEN Max(Len(lines) + end, 0) ELSE Min(end, Len(lines)))

\* the answer for a range of lines that starts at validStartLine
rangeText(path, lines, validStartLine, validEndLine) ==
    <<"file: ">> \o ToStr(path) \o <<"\n", "showing lines ">> \o NumStr(validStartLine)
    \o <<" to ">> \o NumStr(validEndLine) \o <<" (of ">> \o NumStr(Len(lines))
    \o <<" lines)", "\n\n">>
    \o (IF validEndLine < Len(lines)
        THEN <<"\n\n", "tip: use startLine: ">> \o NumStr(validEndLine + 1)
             \o <<" to read on">>
        ELSE <<>>)
    \o (IF validStartLine > 1
        THEN <<"\n", "tip: use startLine: ", "1", ", endLine: ">>
             \o NumStr(validStartLine - 1) \o <<" to see what comes before">>
        ELSE <<>>)
    \o JoinLines(Slice(lines, validStartLine - 1, validEndLine))

\* a slip that shows a page of DefaultSpan lines when endLine is not given
rangeFromShort(path, lines, validStartLine, endLine) ==
    rangeText(path, lines, validStartLine,
              IF Truthy(endLine) THEN Min(endLine.v, Len(lines))
              ELSE Min(validStartLine + DefaultSpan - 1, Len(lines)))

\* validEndLine, given validStartLine
rangeFrom(path, lines, validStartLine, endLine) ==
    rangeText(path, lines, validStartLine,
              IF Truthy(endLine) THEN Min(endLine.v, Len(lines))
              ELSE Min(validStartLine + DefaultSpan, Len(lines)))

wholeText(decodedContent) ==
    <<"file content (base64 decoded">>
    \o (IF Len(decodedContent) > ContentLimit THEN <<", truncated">> ELSE <<>>)
    \o <<"):", "\n\n">>
    \o (IF Len(decodedContent) > ContentLimit
        THEN Substring0(decodedContent, ContentLimit)
             \o <<"\n", "...(too long, truncated)", "\n\n",
                  "tip: use startLine and endLine to see a range of lines">>
        ELSE decodedContent)

\* the answer for a file, given its decoded content
decodedText(p, decodedContent) ==
    IF p.startLine # Undef
    THEN rangeFrom(p.path, SplitLines(decodedContent, <<>>),
                   Max(1, Min(p.startLine.v, Len(SplitLines(decodedContent, <<>>)))),
                   p.endLine)
    ELSE wholeText(decodedContent)

\* the text before the formatter's, f being what formatForHumans returned
directoryAnswer(f) ==
    Return(<<"the path is a directory holding:", "\n\n">> \o f.text.v,
           PipelineLog(FALSE, f.logged))

getFileContentRun(p, o) ==
    IF ~o.ok THEN Throw(o.error, <<>>)
    ELSE IF IsArray(o.data) THEN directoryAnswer(formatForHumans(o.data, "repository"))
    ELSE IF "content" \notin Keys(o.data)
    THEN Return(<<"cannot read the content; it may not be a regular file.">>, <<>>)
    ELSE Return(decodedText(p, Decode(Get(o.data, "content").v)), <<>>)

(***************************************************************************)
(* listFrequentCommunicators                                               *)
(*   "user " and " has no public repository." 用户 x 没有任何公开仓库。    *)
(*   "found no other user who talked with user " 没有发现任何与用户 x      *)
(*   交流过的其他用户。   "found no other human user who talked with user "*)
(*   没有发现任何与用户 x 交流过的其他人类用户。                           *)
(*   "the other users user " and " talks with most in their repositories   *)
(*   (bots filtered):" 用户 x 的仓库中最常与之互动的其他用户（已过滤机器   *)
(*   人）：   "user: " 用户:   ", interactions: " , 互动次数:              *)
(* freqMap is kept as the sequence of its entries in insertion order,      *)
(* which is the order Object.keys and Object.entries give for logins.      *)
(***************************************************************************)
IssueAuthorWeight == 1
CommentWeight == 1
PullAuthorWeight == 2
OwnPullWeight == 3
TopUsers == 5

\* freqMap[login] = (freqMap[login] || 0) + n
Bump(freqMap, login, n) ==
    IF \E i \in DOMAIN freqMap : freqMap[i].user = login
    THEN [i \in DOMAIN freqMap |->
            IF freqMap[i].user = login THEN [freqMap[i] EXCEPT !.count = @ + n]
            ELSE freqMap[i]]
    ELSE Append(freqMap, [user |-> login, count |-> n])

\* if (x.user && x.user.login && x.user.login !== username) freqMap[x.user.login] += n
BumpAuthor(freqMap, x, username, n) ==
    IF /\ Truthy(Get(x, "user"))
       /\ Truthy(Get(Get(x, "user"), "login"))
       /\ Get(Get(x, "user"), "login") # username
    THEN Bump(freqMap, Get(Get(x, "user"), "login"), n)
    ELSE freqMap

RECURSIVE BumpAuthors(_, _, _, _)
\* for (const cm of comments) { ... }
BumpAuthors(freqMap, items, username, n) ==
    IF items = <<>> THEN freqMap
    ELSE BumpAuthors(BumpAuthor(freqMap, Head(items), username, n), Tail(items), username, n)

RECURSIVE BumpOwnPulls(_, _, _, _)
\* for (const pr of userPRs) if (pr.user && pr.user.login === username) freqMap[otherUser] += 3
BumpOwnPulls(freqMap, otherUser, userPRs, username) ==
    IF userPRs = <<>> THEN freqMap
    ELSE BumpOwnPulls(IF /\ Truthy(Get(Head(userPRs), "user"))
                         /\ Get(Get(Head(userPRs), "user"), "login") = username
                      THEN Bump(freqMap, otherUser, OwnPullWeight)
                      ELSE freqMap,
                      otherUser, Tail(userPRs), username)

RECURSIVE InsertByCount(_, _)
\* e put into a list sorted by count, largest first, after the entries that count as much
InsertByCount(sorted, e) ==
    IF sorted = <<>> THEN <<e>>
    ELSE IF Head(sorted).count >= e.count THEN <<Head(sorted)>> \o InsertByCount(Tail(sorted), e)
    ELSE <<e>> \o sorted

RECURSIVE SortByCount(_)
\* .sort((a, b) => b[1] - a[1]): a stable sort, largest count first
SortByCount(entries) ==
    IF entries = <<>> THEN <<>>
    ELSE InsertByCount(SortByCount(SubSeq(entries, 1, Len(entries) - 1)),
                       entries[Len(entries)])

\* botPatterns, a login being the sequence of its parts
botPrefixes ==
    {"dependabot", "github-actions", "codecov", "renovate", "imgbot", "vercel", "snyk-bot",
     "stale", "app/"}

\* botPatterns.some(pattern => pattern.test(item.user))
IsBot(login) ==
    login.v # <<>> /\ (login.v[Len(login.v)] = "[bot]" \/ Head(login.v) \in botPrefixes)

RECURSIVE WithoutBots(_)
\* sorted.filter(item => !botPatterns.some(...))
WithoutBots(sorted) ==
    IF sorted = <<>> THEN <<>>
    ELSE (IF IsBot(Head(sorted).user) THEN <<>> ELSE <<Head(sorted)>>)
         \o WithoutBots(Tail(sorted))

RECURSIVE communicatorLines(_, _)
\* filteredSorted.forEach((item, index) => ...), from element `from` on
communicatorLines(filteredSorted, from) ==
    IF from > Len(filteredSorted) THEN <<>>
    ELSE NumStr(from) \o <<". ", "user: ">> \o ToStr(filteredSorted[from].user)
         \o <<", interactions: ">> \o NumStr(filteredSorted[from].count) \o <<"\n">>
         \o communicatorLines(filteredSorted, from + 1)

\* the handler from `const sorted` on
communicatorsText(p, sorted) ==
    IF Len(sorted) = 0
    THEN Return(<<"found no other user who talked with user ">> \o ToStr(p.username), <<>>)
    ELSE IF Len(WithoutBots(sorted)) = 0
    THEN Return(<<"found no other human user who talked with user ">> \o ToStr(p.username),
                <<>>)
    ELSE Return(<<"the other users user ">> \o ToStr(p.username)
                \o <<" talks with most in their repositories (bots filtered):", "\n\n">>
                \o communicatorLines(WithoutBots(sorted), 1), <<>>)

\* owner/repo of a call on a repository of the user: repo.owner?.login || username
repoOf(p, repo) ==
    ToStr(OrElse(AndGet(Get(repo, "owner"), "login"), p.username)) \o <<"/">>
    \o ToStr(Get(repo, "name"))

\* the loop over topUsers from its element loc.users[1] on
otherUserLoop(p, loc) ==
    IF loc.users = <<>> THEN communicatorsText(p, SortByCount(loc.freqMap))
    ELSE AwaitCall("otherRepos", "repos.listForUser", ToStr(Head(loc.users)), loc, <<>>)

\* the loop over otherUserRepos from its element loc.otherRepos[1] on
otherRepoLoop(p, loc) ==
    IF loc.otherRepos = <<>> THEN otherUserLoop(p, [loc EXCEPT !.users = Tail(@)])
    ELSE AwaitCall("otherPulls", "pulls.list",
                   ToStr(Head(loc.users)) \o <<"/">>
                   \o ToStr(Get(Head(loc.otherRepos), "name")), loc, <<>>)

\* Object.keys(freqMap).sort((a, b) => freqMap[b] - freqMap[a]).slice(0, 5)
topUsersOf(freqMap) ==
    [i \in 1..Min(TopUsers, Len(freqMap)) |-> SortByCount(freqMap)[i].user]

\* the loop over userRepos from its element loc.repos[1] on, and what follows it
repoLoop(p, loc) ==
    IF loc.repos = <<>> THEN otherUserLoop(p, [loc EXCEPT !.users = topUsersOf(loc.freqMap)])
    ELSE AwaitCall("issues", "issues.listForRepo", repoOf(p, Head(loc.repos)), loc, <<>>)

\* the loop over issues from its element loc.issues[1] on, and what follows it
issueLoop(p, loc) ==
    IF loc.issues = <<>>
    THEN AwaitCall("pulls", "pulls.list", repoOf(p, Head(loc.repos)), loc, <<>>)
    ELSE AwaitCall("comments", "issues.listComments",
                   repoOf(p, Head(loc.repos)) \o <<"#">>
                   \o ToStr(Get(Head(loc.issues), "number")),
                   [loc EXCEPT !.freqMap = BumpAuthor(@, Head(loc.issues), p.username,
                                                      IssueAuthorWeight)],
                   <<>>)

\* the loop over pullRequests from its element loc.prs[1] on, and what follows it
prLoop(p, loc) ==
    IF loc.prs = <<>> THEN repoLoop(p, [loc EXCEPT !.repos = Tail(@)])
    ELSE AwaitCall("reviewComments", "pulls.listReviewComments",
                   repoOf(p, Head(loc.repos)) \o <<"#">>
                   \o ToStr(Get(Head(loc.prs), "number")),
                   [loc EXCEPT !.freqMap = BumpAuthor(@, Head(loc.prs), p.username,
                                                      PullAuthorWeight)],
                   <<>>)

listFrequentCommunicatorsRun(p, site, loc, o) ==
    CASE site = "userRepos" ->
            IF ~o.ok THEN Throw(o.error, <<>>)
            ELSE IF ~Truthy(o.data) \/ Len(o.data.v) = 0
            THEN Return(<<"user ">> \o ToStr(p.username) \o <<" has no public repository.">>,
                        <<>>)
            ELSE repoLoop(p, [loc EXCEPT !.repos = o.data.v])
      [] site = "issues" ->
            IF ~o.ok THEN Throw(o.error, <<>>)
            ELSE issueLoop(p, [loc EXCEPT !.issues = o.data.v])
      [] site = "comments" ->
            IF ~o.ok THEN Throw(o.error, <<>>)
            ELSE issueLoop(p, [loc EXCEPT
                                 !.freqMap = BumpAuthors(@, o.data.v, p.username,
                                                         CommentWeight),
                                 !.issues = Tail(@)])
      [] site = "pulls" ->
            IF ~o.ok THEN repoLoop(p, [loc EXCEPT !.repos = Tail(@)])
            ELSE prLoop(p, [loc EXCEPT !.prs = o.data.v])
      [] site = "reviewComments" ->
            IF ~o.ok THEN prLoop(p, [loc EXCEPT !.prs = Tail(@)])
            ELSE prLoop(p, [loc EXCEPT
                              !.freqMap = BumpAuthors(@, o.data.v, p.username, CommentWeight),
                              !.prs = Tail(@)])
      [] site = "otherRepos" ->
            IF ~o.ok THEN communicatorsText(p, SortByCount(loc.freqMap))
            ELSE otherRepoLoop(p, [loc EXCEPT !.otherRepos = o.data.v])
      [] site = "otherPulls" ->
            IF ~o.ok THEN communicatorsText(p, SortByCount(loc.freqMap))
            ELSE otherRepoLoop(p, [loc EXCEPT
                                     !.freqMap = BumpOwnPulls(@, Head(loc.users), o.data.v,
                                                              p.username),
                                     !.otherRepos = Tail(@)])

(***************************************************************************)
(* The tool server: the dispatcher invokes one tool; its handler runs      *)
(***************************************************************************)
Tools ==
    DOMAIN Pipelines \cup DOMAIN Deletions \cup DOMAIN CommentTools
        \cup {"listRepositoryContents", "updateRepository", "getIssueComments",
              "getPullRequestComments", "listFollowing", "listFollowingUserRepos",
              "listRepositories", "getFileContent", "listFrequentCommunicators"}

\* the parameter combinations a tool is invoked with
ParamsOf(t) ==
    CASE t = "listRepositoryContents" ->
            {[BaseParams EXCEPT !.path = path, !.ref = ref] :
                path \in {Undef, Str(<<>>), Str(<<"s">>), Str(<<"s", "/", "l", "/">>)},
                ref \in {Undef, Str(<<"m">>)}}
      [] t = "updateRepository" ->
            {[BaseParams EXCEPT !.topics = topics, !.given = given] :
                topics \in {Undef, Arr(<<Str(<<"t">>)>>)},
                given \in {{}, {"description"}, {"hasIssues", "name"}}}
      [] t \in {"getIssueComments", "getPullRequestComments"} ->
            {[BaseParams EXCEPT !.page = page] : page \in {Undef, Num(2)}}
      [] t = "listRepositories" ->
            {[BaseParams EXCEPT !.page = page, !.perPage = perPage, !.search = search] :
                page \in {Undef, Num(2)}, perPage \in {Undef, Num(1)},
                search \in {Undef, Str(<<" ">>), Str(<<"T", "s">>), Str(<<"z">>)}}
      [] t = "getFileContent" ->
            {[BaseParams EXCEPT !.path = Str(<<"s", "/", "f">>), !.startLine = startLine,
                                !.endLine = endLine] :
                startLine \in {Undef, Num(0), Num(2), Num(9)},
                endLine \in {Undef, Num(0), Num(1), Num(3), Num(-1)}}
      [] OTHER -> {BaseParams}

\* a handler that awaits api first, with no locals yet
First(site, api) == AwaitCall(site, api, <<>>, EmptyFields, <<>>)

\* the handler of tool t from its start to its first await
Start(t, p) ==
    CASE t \in DOMAIN Pipelines -> First("call", Pipelines[t].api)
      [] t \in DOMAIN Deletions -> First("call", Deletions[t])
      [] t \in DOMAIN CommentTools -> First("call", CommentTools[t])
      [] t = "listRepositoryContents" -> First("call", "repos.getContent")
      [] t = "updateRepository" -> updateRepositoryStart(p)
      [] t = "getIssueComments" -> First("issue", "issues.get")
      [] t = "getPullRequestComments" -> First("pr", "pulls.get")
      [] t = "listFollowing" -> First("call", "users.listFollowingForUser")
      [] t = "listFrequentCommunicators" ->
            AwaitCall("userRepos", "repos.listForUser", ToStr(p.username),
                      [freqMap |-> <<>>, repos |-> <<>>, issues |-> <<>>, prs |-> <<>>,
                       users |-> <<>>, otherRepos |-> <<>>], <<>>)
      [] t = "listRepositories" -> First("call", "repos.listForAuthenticatedUser")
      [] t = "getFileContent" -> First("call", "repos.getContent")
      [] t = "listFollowingUserRepos" -> First("following", "users.listFollowingForUser")

Init ==
    /\ pc = "idle"
    /\ data = Undef
    /\ type = ""
    /\ dataAfter = Undef
    /\ cleaned = Undef
    /\ cleanedRef = "none"
    /\ recleaned = Undef
    /\ formatted = Undef
    /\ errorLog = <<>>
    /\ raised = FALSE
    /\ NoHandler
    /\ NoProcesses

\* the dispatcher calls the handler, which runs to its first await
Invoke ==
    /\ pc = "idle"
    /\ \E t \in Tools :
        \E p \in ParamsOf(t) :
            /\ tool' = t
            /\ params' = p
            /\ Suspend(Start(t, p))
    /\ UNCHANGED lockVars
    /\ UNCHANGED <<data, type, dataAfter, cleaned, cleanedRef, recleaned, formatted, errorLog,
                   raised,
                   calls, result, other>>

Pipeline ==
    /\ tool \in DOMAIN Pipelines
    /\ pc = "call"
    /\ \E o \in Outcomes(pending.api) : Proceed(o, pipelineRun(tool, o))

Deletion ==
    /\ tool \in DOMAIN Deletions
    /\ pc = "call"
    /\ \E o \in Outcomes(pending.api) : Proceed(o, deletionRun(tool, params, o))

CreateComment ==
    /\ tool \in DOMAIN CommentTools
    /\ pc = "call"
    /\ \E o \in Outcomes(pending.api) : Proceed(o, commentRun(tool, params, o))

listRepositoryContents ==
    /\ tool = "listRepositoryContents"
    /\ pc = "call"
    /\ \E o \in Outcomes(pending.api) :
        Proceed(o, listRepositoryContentsRun(params, OrElse(params.path, Str(<<>>)), o))

updateRepository ==
    /\ tool = "updateRepository"
    /\ pc \in {"topics", "get", "update"}
    /\ \E o \in Outcomes(pending.api) :
        Proceed(o, updateRepositoryRun(params, pc, locals, o))

getIssueComments ==
    /\ tool = "getIssueComments"
    /\ pc \in {"issue", "comments"}
    /\ \E o \in IF pc = "issue" THEN Outcomes(pending.api)
               ELSE PagedOutcomes(pending.api, IssueCommentsPerPage) :
        Proceed(o, getIssueCommentsRun(params, pc, locals, o))

getPullRequestComments ==
    /\ tool = "getPullRequestComments"
    /\ pc \in {"pr", "issueComments", "reviewComments"}
    /\ \E o \in IF pc = "pr" THEN Outcomes(pending.api)
               ELSE PagedOutcomes(pending.api, PullCommentsPerPage) :
        Proceed(o, getPullRequestCommentsRun(params, pc, locals, o))

listFollowing ==
    /\ tool = "listFollowing"
    /\ pc = "call"
    /\ \E o \in Outcomes(pending.api) : Proceed(o, listFollowingRun(params, o))

listFollowingUserRepos ==
    /\ tool = "listFollowingUserRepos"
    /\ pc \in {"following", "repos"}
    /\ \E o \in Outcomes(pending.api) :
        Proceed(o, listFollowingUserReposRun(params, pc, locals, o))

listRepositories ==
    /\ tool = "listRepositories"
    /\ pc = "call"
    /\ \E o \in Outcomes(pending.api) : Proceed(o, listRepositoriesRun(params, o))

getFileContent ==
    /\ tool = "getFileContent"
    /\ pc = "call"
    /\ \E o \in Outcomes(pending.api) : Proceed(o, getFileContentRun(params, o))

listFrequentCommunicators ==
    /\ tool = "listFrequentCommunicators"
    /\ pc \in {"userRepos", "issues", "comments", "pulls", "reviewComments", "otherRepos",
              "otherPulls"}
    /\ \E o \in ScanOutcomes(pending.api) :
            Proceed(o, listFrequentCommunicatorsRun(params, pc, locals, o))

Next ==
    \/ Invoke
    \/ Pipeline
    \/ Deletion
    \/ CreateComment
    \/ listRepositoryContents
    \/ updateRepository
    \/ getIssueComments
    \/ getPullRequestComments
    \/ listFollowing
    \/ listFollowingUserRepos
    \/ listRepositories
    \/ getFileContent
    \/ listFrequentCommunicators

Spec == Init /\ [][Next]_vars

(***************************************************************************)
(* Properties of the tool handlers                                         *)
(***************************************************************************)
\* the invocation has settled
Done == tool # "" /\ pc = "done"

\* the text the invocation settled with
AnswerText == result.content[1].text.v

\* the calls of the invocation that failed
FailedCalls == {i \in DOMAIN calls : ~calls[i].ok}

\* the awaits a try/catch of their own surrounds: replaceAllTopics in updateRepository
\* (README.md 578-590), and in listFrequentCommunicators pulls.list (1653-1685),
\* listReviewComments (1667-1681) and both calls of the closing block (1690-1715)
Guarded(t, site) ==
    \/ t = "updateRepository" /\ site = "topics"
    \/ /\ t = "listFrequentCommunicators"
       /\ site \in {"pulls", "reviewComments", "otherRepos", "otherPulls"}

\* "Error: <message>" for an upstream error
ErrorText(error) == <<"Error: ">> \o ToStr(Get(error, "message"))

\* the two texts listRepositoryContents answers a failure with
ContentsErrorText(error) ==
    IF Get(error, "status") = Num(404)
    THEN <<"path not found: ">>
         \o (IF params.path \in {Undef, Str(<<>>)} THEN <<"/">> ELSE params.path.v)
         \o <<"\n", "check the path, or go up one directory.">>
    ELSE <<"cuowu: ">> \o Get(error, "message").v

\* a text that reports a failure
IsErrorText(text) ==
    text # <<>> /\ Head(text) \in {"Error: ", "path not found: ", "cuowu: "}

\* C1: every tool handler, for every combination of parameters and however each of
\* its upstream calls settles (success, failure or timeout, at any call of its
\* sequence), resolves with exactly one content item of type "text" whose text is
\* a string; it never rejects.
HandlerResolvesWithText ==
    /\ ~raised
    /\ Done =>
        /\ DOMAIN result = {"content"}
        /\ Len(result.content) = 1
        /\ result.content[1].type = "text"
        /\ result.content[1].text.t = "string"

\* a handler resolved after a call later than its first failed
ResolvedAfterLateFailure ==
    Done /\ ~raised /\ Len(calls) >= 2 /\ ~calls[Len(calls)].ok /\ IsErrorText(AnswerText)

\* C2 as claimed: whenever an upstream call of a handler fails, the text returned is
\* "Error: " followed by the upstream error's message, for every tool,
\* listRepositoryContents on a 404 and on any other failure included.
FailureGivesErrorPrefix ==
    Done => \A i \in FailedCalls : AnswerText = ErrorText(calls[i].error)

\* C2: whenever an upstream call fails and no try/catch of its own surrounds it, the
\* text returned is "Error: " followed by the upstream error's message, for every
\* tool but listRepositoryContents, which answers a 404 with the path that was not
\* found and any other failure with its own prefix and the message.
FailureGivesCatchText ==
    Done =>
        \A i \in FailedCalls :
            ~Guarded(tool, calls[i].site) =>
                AnswerText = IF tool = "listRepositoryContents"
                             THEN ContentsErrorText(calls[i].error)
                             ELSE ErrorText(calls[i].error)

\* listRepositoryContents answered a 404, and another handler a failed call
ContentsNotFound ==
    /\ Done
    /\ tool = "listRepositoryContents"
    /\ FailedCalls # {}
    /\ Get(calls[1].error, "status") = Num(404)
    /\ Head(AnswerText) = "path not found: "

\* the failed call i is not issued again
NotReissued(i) ==
    /\ \A j \in DOMAIN calls :
            j > i => ~(calls[j].api = calls[i].api /\ calls[j].arg = calls[i].arg)
    /\ ~(pending.api = calls[i].api /\ pending.arg = calls[i].arg)

\* the failed call i ended the invocation with an error text
EndedInError(i) == i = Len(calls) /\ Done /\ IsErrorText(AnswerText)

\* C3 as claimed: as soon as any upstream call fails, no call is re-issued and the
\* invocation ends with an error text, never with a normal answer; so too when
\* replaceAllTopics fails in updateRepository and when pulls.list or
\* listReviewComments fails in listFrequentCommunicators.
NoRetryNoPartialSuccess ==
    \A i \in FailedCalls : NotReissued(i) /\ EndedInError(i)

\* C3: no failed call is issued again, and a failed call that no try/catch of its
\* own surrounds ends the invocation at once with an error text, never with a
\* normal answer.
NoRetryFailureEnds ==
    \A i \in FailedCalls :
        /\ NotReissued(i)
        /\ ~Guarded(tool, calls[i].site) => EndedInError(i)

\* updateRepository went on after replaceAllTopics failed, and the update that
\* followed failed and ended the invocation
FailedAfterTopicsFailed ==
    /\ Done
    /\ tool = "updateRepository"
    /\ Len(calls) = 2
    /\ calls[1].site = "topics" /\ ~calls[1].ok
    /\ ~calls[2].ok
    /\ AnswerText = ErrorText(calls[2].error)

(***************************************************************************)
(* Pagination                                                              *)
(***************************************************************************)
PagedTools == {"listRepositories", "getIssueComments", "getPullRequestComments"}

\* the calls that ask for a page of items
PagedApis ==
    {"repos.listForAuthenticatedUser", "issues.listComments", "pulls.listReviewComments"}

\* the page size the invocation asks for
PageSize ==
    CASE tool = "listRepositories" ->
             IF params.perPage = Undef THEN DefaultPerPage ELSE params.perPage.v
      [] tool = "getIssueComments" -> IssueCommentsPerPage
      [] OTHER -> PullCommentsPerPage

\* some request for a page returned exactly the page size
FullPageReturned ==
    \E i \in DOMAIN calls : calls[i].api \in PagedApis /\ ItemsIn(calls[i]) = PageSize

\* every request for a page returned fewer items than the page size
ShortPagesReturned ==
    \A i \in DOMAIN calls : calls[i].api \in PagedApis => ItemsIn(calls[i]) < PageSize

\* the answer carries the "next page" hint
NextPageHint ==
    \E a \in {"next page: use page: ", "--- more comments. use page: "} :
        a \in Range(AnswerText)

\* C16: for each paginated tool (listRepositories with page size perPage,
\* getIssueComments with page size 30, getPullRequestComments with page size 20) the
\* "next page" hint, which is shown exactly when has_next_page is true, appears if
\* and only if an upstream request returned exactly the page size of items, and
\* does not appear whenever the requests returned fewer.
NextPageIffFullPage ==
    (Done /\ tool \in PagedTools /\ FailedCalls = {}) =>
        /\ NextPageHint <=> FullPageReturned
        /\ ShortPagesReturned => ~NextPageHint

\* C16 witness: getIssueComments received 30 comments and its answer points to
\* the next page
FullPageOfComments ==
    /\ Done /\ tool = "getIssueComments" /\ FailedCalls = {}
    /\ ItemsIn(calls[2]) = IssueCommentsPerPage
    /\ NextPageHint
(***************************************************************************)
(* The order of the upstream calls                                         *)
(***************************************************************************)
\* the methods the settled calls named, in the order they settled
ApisCalled == [i \in DOMAIN calls |-> calls[i].api]

\* s is what t begins with
IsPrefix(s, t) == Len(s) <= Len(t) /\ SubSeq(t, 1, Len(s)) = s

\* the order in which the two comment tools write their calls
ProgramOrder ==
    [getIssueComments |-> <<"issues.get", "issues.listComments">>,
     getPullRequestComments |->
        <<"pulls.get", "issues.listComments", "pulls.listReviewComments">>]

\* the handler awaits one call while it runs, and none before or after; the two
\* comment tools issue their calls in program order
OneAtATimeInOrder ==
    /\ pending # NoCall <=> pc \notin {"idle", "done"}
    /\ tool \in DOMAIN ProgramOrder =>
          /\ IsPrefix(ApisCalled, ProgramOrder[tool])
          /\ pending # NoCall => pending.api = ProgramOrder[tool][Len(calls) + 1]

\* C17 as claimed: within one invocation the calls are issued one after another in
\* program order, at most one in flight, each only after the one before it
\* completed successfully: no call follows a failed call.
CallsOnlyAfterSuccess ==
    /\ OneAtATimeInOrder
    /\ \A i \in DOMAIN calls :
          ~calls[i].ok => i = Len(calls) /\ pending = NoCall

\* C17: the same, except that a call the handler guards with a try/catch of its
\* own (replaceAllTopics in updateRepository; pulls.list, listReviewComments and
\* the calls of the closing block in listFrequentCommunicators) may fail and be
\* followed by the next call.
CallsOnlyAfterSuccessUnlessGuarded ==
    /\ OneAtATimeInOrder
    /\ \A i \in DOMAIN calls :
          (~calls[i].ok /\ ~Guarded(tool, calls[i].site)) => i = Len(calls) /\ pending = NoCall

\* C17 witness: getPullRequestComments issued its three calls in program order,
\* each after the one before it had succeeded
ThreeCallsInOrder ==
    /\ Done /\ tool = "getPullRequestComments"
    /\ ApisCalled = ProgramOrder[tool]
    /\ FailedCalls = {}

(***************************************************************************)
(* Two invocations at once.  Node runs one handler until its next await;   *)
(* while it is suspended the dispatcher may start or resume another.  What *)
(* a handler computes it keeps in const and let bindings of the call; the  *)
(* instance fields (octokit, server, processManager) are assigned in the   *)
(* constructor alone.                                                      *)
(***************************************************************************)
PairTools == {"getIssueComments", "getPullRequestComments"}

\* a slip that keeps what the handler computed in an instance field, which the
\* other invocation overwrites
SharedFrame(own, others) == IF DOMAIN others = DOMAIN own THEN others ELSE own

\* the bindings a resumed handler reads: its own
OwnFrame(own, others) == own

\* the handler of tool t run on from the await at `site`
PairStep(t, p, site, loc, o) ==
    IF t = "getIssueComments" THEN getIssueCommentsRun(p, site, loc, o)
    ELSE getPullRequestCommentsRun(p, site, loc, o)

Running(at) == at \notin {"idle", "done"}

InvokeFirst ==
    /\ pc = "idle"
    /\ \E t \in PairTools :
        \E p \in ParamsOf(t) :
            /\ tool' = t
            /\ params' = p
            /\ Suspend(Start(t, p))
    /\ UNCHANGED lockVars
    /\ UNCHANGED <<data, type, dataAfter, cleaned, cleanedRef, recleaned, formatted, errorLog,
                   raised, calls, result, other>>

\* the second invocation suspended at the await s names
SecondSuspended(s) ==
    [other EXCEPT !.pc = s.site, !.pending = [api |-> s.api, arg |-> s.arg],
                  !.locals = s.locals]

InvokeSecond ==
    /\ other.pc = "idle"
    /\ \E t \in PairTools :
        \E p \in ParamsOf(t) :
            other' = [SecondSuspended(Start(t, p)) EXCEPT !.tool = t, !.params = p]
    /\ UNCHANGED lockVars
    /\ UNCHANGED <<pc, data, type, dataAfter, cleaned, cleanedRef, recleaned, formatted,
                   errorLog, raised, tool, params, pending, calls, locals, result>>

\* the first invocation's call settled as o and its handler ran on as s says
FirstProceeds(o, s) ==
    /\ calls' = Append(calls, Settlement(pc, pending, o))
    /\ errorLog' = errorLog \o s.log
    /\ IF s.kind = "await"
       THEN /\ Suspend(s)
            /\ UNCHANGED <<result, raised>>
       ELSE Finish(Settled(tool, params, s))
    /\ other' = [other EXCEPT !.overlap = @ \/ Running(other.pc)]
    /\ UNCHANGED lockVars
    /\ UNCHANGED <<tool, params, data, type, dataAfter, cleaned, cleanedRef, recleaned,
                   formatted>>

StepFirst ==
    /\ tool \in PairTools
    /\ Running(pc)
    /\ \E o \in Outcomes(pending.api) :
        FirstProceeds(o, PairStep(tool, params, pc, OwnFrame(locals, other.locals), o))

\* the second invocation settled as r says
SecondFinished(r) ==
    [other EXCEPT !.pc = "done", !.pending = NoCall, !.result = r.value,
                  !.raised = r.rejected]

\* the second invocation's call settled as o and its handler ran on as s says
SecondProceeds(o, s) ==
    /\ other' = [(IF s.kind = "await" THEN SecondSuspended(s)
                  ELSE SecondFinished(Settled(other.tool, other.params, s)))
                    EXCEPT !.calls = Append(@, Settlement(other.pc, other.pending, o)),
                           !.overlap = @ \/ Running(pc)]
    /\ errorLog' = errorLog \o s.log
    /\ UNCHANGED lockVars
    /\ UNCHANGED <<pc, data, type, dataAfter, cleaned, cleanedRef, recleaned, formatted,
                   raised, tool, params, pending, calls, locals, result>>

StepSecond ==
    /\ other.tool \in PairTools
    /\ Running(other.pc)
    /\ \E o \in Outcomes(other.pending.api) :
        SecondProceeds(o, PairStep(other.tool, other.params, other.pc,
                                   OwnFrame(other.locals, locals), o))

NextPair == InvokeFirst \/ InvokeSecond \/ StepFirst \/ StepSecond

SpecPair == Init /\ [][NextPair]_vars

RECURSIVE RunAlone(_, _, _, _)
\* how the handler of tool t, at step s, ends when nothing else runs and its calls
\* settle as cs says
RunAlone(t, p, s, cs) ==
    IF cs = <<>> THEN s
    ELSE RunAlone(t, p, PairStep(t, p, s.site, s.locals, Head(cs)), Tail(cs))

\* what an invocation run alone settles with
AloneResult(t, p, cs) == Settled(t, p, RunAlone(t, p, Start(t, p), cs))

TagsListed == calls[1].data.v

\* C19: for every upstream list of N >= 1 tags the text listTags returns names
\* every tag and shows the first 7 characters of the commit sha of each tag that
\* has one; for an empty list it is the "no tags found" sentence.
ListTagsNamesEveryTag ==
    (Done /\ tool = "listTags" /\ FailedCalls = {}) =>
        /\ TagsListed = <<>> => AnswerText = <<"No tags found.">>
        /\ \A i \in DOMAIN TagsListed :
              /\ Includes(AnswerText, Get(TagsListed[i], "name").v)
              /\ Truthy(AndGet(Get(TagsListed[i], "commit"), "sha")) =>
                    Includes(AnswerText,
                             Substring0(AndGet(Get(TagsListed[i], "commit"), "sha").v, ShaLen))

\* where C19 fails: two tags were listed and the text names neither; the cleaner
\* had written the list as text, and the formatter read the field name of that text
TagsListedUnnamed ==
    /\ Done /\ tool = "listTags" /\ FailedCalls = {} /\ Len(TagsListed) = 2
    /\ AnswerText = <<"tag: ", "undefined", "\n">>

(***************************************************************************)
(* The cleaner of src/unnamed/part_000, case 'comment'                     *)
(***************************************************************************)
CommentLimit == 1000

\* a slip that cuts a comment where the generic step cuts free text
commentBodyGeneric(body) ==
    IF LongerThan(body, TruncLimit)
    THEN IF body.t = "string" THEN Prim(Str(Substring0(body.v, TruncLimit) \o Ellipsis))
         ELSE Threw
    ELSE Prim(body)

\* comment.body.length > 1000 ? comment.body.substring(0, 1000) + '...' : comment.body
commentBody(body) ==
    IF LongerThan(body, CommentLimit)
    THEN IF body.t = "string" THEN Prim(Str(Substring0(body.v, CommentLimit) \o Ellipsis))
         ELSE Threw
    ELSE Prim(body)

\* the object literal case 'comment' starts from
commentBase(comment) ==
    Obj("id" :> Get(comment, "id") @@ "created_at" :> Get(comment, "created_at")
        @@ "updated_at" :> Get(comment, "updated_at")
        @@ "html_url" :> Get(comment, "html_url"))

\* what case 'comment' makes of one record
cleanComment(comment) ==
    IF Nullish(comment) THEN Threw
    ELSE IF Truthy(Get(comment, "body")) /\ commentBody(Get(comment, "body")).thrown
    THEN Threw
    ELSE AssignIf(Truthy(AndGet(Get(comment, "user"), "login")),
                  AssignIf(Truthy(Get(comment, "body")), Fresh(commentBase(comment)),
                           "body", commentBody(Get(comment, "body")).val),
                  "user", Get(Get(comment, "user"), "login"))

\* the try block for type 'comment'
cleanCommentTry(response) ==
    IF IsArray(response)
    THEN mapResult(response, [i \in DOMAIN response.v |-> cleanComment(response.v[i])])
    ELSE recordResult(response, cleanComment(response))

\* catch (error) { return data; }: nothing is logged
cleanCommentCatch(r) ==
    IF r.thrown
    THEN [out |-> r.after, ref |-> "input", after |-> r.after, raised |-> FALSE]
    ELSE [out |-> r.out, ref |-> r.ref, after |-> r.after, raised |-> FALSE]

\* cleanGitHubResponse(data, 'comment') of src/unnamed/part_000
cleanCommentResponse(response) == cleanCommentCatch(cleanCommentTry(response))

CommentBodyLens ==
    {0, 1, TruncLimit, TruncLimit + 1, CommentLimit, CommentLimit + 1, CommentLimit + MaxOver}

CommentBodies == {EmptyFields} \cup {"body" :> Str(Text(n)) : n \in CommentBodyLens}

CommentRecords ==
    {("id" :> Num(3)) @@ b @@ u @@ e :
        b \in CommentBodies, u \in UserOpts, e \in {EmptyFields, "created_at" :> Date}}

CommentElements ==
    {Null} \cup {Obj(("id" :> Num(3)) @@ ("body" :> Str(Text(n)))) :
                    n \in {0, CommentLimit, CommentLimit + 1}}

CommentInputs ==
    Primitives \cup {Obj(r) : r \in CommentRecords}
        \cup {Arr(q) : q \in SeqsUpTo(CommentElements, MaxArr)}

InitComment ==
    /\ pc = "ready"
    /\ data \in CommentInputs
    /\ type = "comment"
    /\ dataAfter = data
    /\ cleaned = Undef
    /\ cleanedRef = "none"
    /\ recleaned = Undef
    /\ formatted = Undef
    /\ errorLog = <<>>
    /\ raised = FALSE
    /\ NoHandler
    /\ NoProcesses

CallComment ==
    /\ pc = "ready"
    /\ cleaned' = cleanCommentResponse(data).out
    /\ cleanedRef' = cleanCommentResponse(data).ref
    /\ dataAfter' = cleanCommentResponse(data).after
    /\ raised' = cleanCommentResponse(data).raised
    /\ pc' = "done"
    /\ UNCHANGED lockVars
    /\ UNCHANGED <<data, type, recleaned, formatted, errorLog>>
    /\ UNCHANGED handlerVars

NextComment == CallComment

SpecComment == InitComment /\ [][NextComment]_vars

\* comment records, one or an array of them, were cleaned
CommentsCleaned ==
    /\ pc = "done"
    /\ data.t = "object" \/ (IsArray(data) /\ \A i \in DOMAIN data.v : data.v[i].t = "object")

\* a body longer than 1000 characters becomes its first 1000 characters and "..."
LongBodyCut(p) ==
    Len(Get(p[1], "body").v) > CommentLimit =>
        Get(p[2], "body")
          = Str(Substring0(Get(p[1], "body").v, CommentLimit) \o Ellipsis)

\* C22 as claimed: in the cleaner with the kind 'comment', for every comment
\* record or array of comment records whose body is a string, a body longer than
\* 1000 characters becomes exactly its first 1000 characters followed by "...",
\* and a body of 1000 characters or fewer is kept unchanged.
CommentBodyCutAt1000 ==
    CommentsCleaned =>
        /\ ShapeMirrored /\ ~raised
        /\ \A p \in RecordPairs :
              Get(p[1], "body").t = "string" =>
                  /\ LongBodyCut(p)
                  /\ Len(Get(p[1], "body").v) <= CommentLimit =>
                        Get(p[2], "body") = Get(p[1], "body")

\* C22: the same, except that an empty body is left out of the result.
CommentBodyCutAt1000UnlessEmpty ==
    CommentsCleaned =>
        /\ ShapeMirrored /\ ~raised
        /\ \A p \in RecordPairs :
              Get(p[1], "body").t = "string" =>
                  /\ LongBodyCut(p)
                  /\ Len(Get(p[1], "body").v) \in 1..CommentLimit =>
                        Get(p[2], "body") = Get(p[1], "body")
                  /\ Get(p[1], "body").v = <<>> => "body" \notin Keys(p[2])

\* C22 witness: a comment whose body has 1001 characters was cleaned; the body of
\* the result has 1003 characters and ends in "..."
CommentCutTo1000 ==
    /\ CommentsCleaned /\ data.t = "object"
    /\ Get(data, "body").t = "string" /\ Get(cleaned, "body").t = "string"
    /\ Len(Get(data, "body").v) = CommentLimit + 1
    /\ Len(Get(cleaned, "body").v) = CommentLimit + 3
    /\ SubSeq(Get(cleaned, "body").v, CommentLimit + 1, CommentLimit + 3) = Ellipsis

(***************************************************************************)
(* The process lock: ProcessManager and the lock check of the constructor  *)
(***************************************************************************)
\* the process with this pid runs
Alive(pid) == pid \in Instances /\ processes[pid].pc \notin {"new", "dead"}

\* a slip that records an instanceId other than the writer's
createLockFileUnsigned(i) == [kind |-> "lock", pid |-> i, instanceId |-> 0]

\* what createLockFile writes: { pid: process.pid, instanceId: this.instanceId }
createLockFile(i) == [kind |-> "lock", pid |-> i, instanceId |-> i]

\* process.exit(code): the code is recorded; the first call emits 'exit', whose
\* listener is cleanup; a call made while exiting ends the process
processExit(p, code) ==
    IF p.exiting
    THEN [p EXCEPT !.exitCode = code, !.pc = "dead"]
    ELSE [p EXCEPT !.exitCode = code, !.exiting = TRUE, !.pc = "cleanup.existsSync"]

\* an exception nothing catches: 'exit' is emitted with code 1
uncaughtException(p) == [p EXCEPT !.exitCode = 1, !.exiting = TRUE, !.pc = "cleanup.existsSync"]

InitLock ==
    /\ pc = "idle"
    /\ data = Undef
    /\ type = ""
    /\ dataAfter = Undef
    /\ cleaned = Undef
    /\ cleanedRef = "none"
    /\ recleaned = Undef
    /\ formatted = Undef
    /\ errorLog = <<>>
    /\ raised = FALSE
    /\ NoHandler
    /\ lockFile \in {NoFile, Unparseable, [kind |-> "lock", pid |-> 0, instanceId |-> 0]}
    /\ processes \in {[i \in Instances |-> Unlaunched(cw)] : cw \in BOOLEAN}

lockOnly ==
    UNCHANGED <<pc, data, type, dataAfter, cleaned, cleanedRef, recleaned, formatted,
                errorLog, raised, tool, params, pending, calls, locals, result, other>>

\* new GitHubMCP(): the ProcessManager is constructed and cleanup registered
Launch(i) ==
    /\ processes[i].pc = "new"
    /\ processes' = [processes EXCEPT ![i].pc = "existsSync"]
    /\ UNCHANGED lockFile
    /\ lockOnly

\* checkAndCreateLock: if (fs.existsSync(LOCK_FILE))
ExistsSync(i) ==
    /\ processes[i].pc = "existsSync"
    /\ processes' = [processes EXCEPT ![i].pc =
                        IF lockFile.kind = "absent" THEN "createLockFile" ELSE "readFileSync"]
    /\ UNCHANGED lockFile
    /\ lockOnly

\* checkAndCreateLock: JSON.parse(fs.readFileSync(LOCK_FILE, 'utf8'))
ReadFileSync(i) ==
    /\ processes[i].pc = "readFileSync"
    /\ processes' = [processes EXCEPT ![i] =
          IF lockFile.kind = "absent"
          THEN [@ EXCEPT !.threw = "read", !.returned = "false", !.pc = "exit"]
          ELSE IF lockFile.kind = "unparseable"
          THEN [@ EXCEPT !.threw = "parse", !.returned = "false", !.pc = "exit"]
          ELSE [@ EXCEPT !.lockData = lockFile, !.pc = "kill0"]]
    /\ UNCHANGED lockFile
    /\ lockOnly

\* checkAndCreateLock: process.kill(lockData.pid, 0)
KillZero(i) ==
    /\ processes[i].pc = "kill0"
    /\ processes' = [processes EXCEPT ![i] =
                        IF Alive(processes[i].lockData.pid) THEN [@ EXCEPT !.pc = "killTerm"]
                        ELSE [@ EXCEPT !.pc = "createLockFile", !.lockData = NoFile]]
    /\ UNCHANGED lockFile
    /\ lockOnly

\* checkAndCreateLock: process.kill(lockData.pid, 'SIGTERM'), setTimeout, return true
KillTerm(i) ==
    /\ processes[i].pc = "killTerm"
    /\ processes' =
          IF Alive(processes[i].lockData.pid)
          THEN [processes EXCEPT ![i].timer = TRUE, ![i].foundLive = TRUE,
                                 ![i].returned = "true", ![i].pc = "loop",
                                 ![i].lockData = NoFile,
                                 ![processes[i].lockData.pid].signal = TRUE]
          ELSE [processes EXCEPT ![i].pc = "createLockFile", ![i].lockData = NoFile]
    /\ UNCHANGED lockFile
    /\ lockOnly

\* checkAndCreateLock: this.createLockFile(); return true, or the outer catch
CreateLockFile(i) ==
    /\ processes[i].pc = "createLockFile"
    /\ IF processes[i].canWrite
       THEN /\ lockFile' = createLockFile(i)
            /\ processes' = [processes EXCEPT ![i].writes = @ + 1, ![i].returned = "true",
                                              ![i].pc = "loop"]
       ELSE /\ processes' = [processes EXCEPT ![i].threw = "write", ![i].returned = "false",
                                              ![i].pc = "exit"]
            /\ UNCHANGED lockFile
    /\ lockOnly

\* the constructor: if (!checkAndCreateLock()) process.exit(1)
ExitOne(i) ==
    /\ processes[i].pc = "exit"
    /\ processes' = [processes EXCEPT ![i] = processExit(@, 1)]
    /\ UNCHANGED lockFile
    /\ lockOnly

\* the callback of setTimeout: this.createLockFile()
TimerFires(i) ==
    /\ processes[i].pc = "loop"
    /\ processes[i].timer
    /\ IF processes[i].canWrite
       THEN /\ lockFile' = createLockFile(i)
            /\ processes' = [processes EXCEPT ![i].writes = @ + 1, ![i].timer = FALSE]
       ELSE /\ processes' = [processes EXCEPT ![i] = uncaughtException([@ EXCEPT !.timer = FALSE])]
            /\ UNCHANGED lockFile
    /\ lockOnly

\* SIGINT from outside; an instance still in its constructor sees it once the
\* constructor has returned
Interrupt(i) ==
    /\ processes[i].pc = "loop"
    /\ ~processes[i].signal
    /\ processes' = [processes EXCEPT ![i].signal = TRUE]
    /\ UNCHANGED lockFile
    /\ lockOnly

\* process.on('SIGINT', cleanup), process.on('SIGTERM', cleanup): the listener starts
OnSignal(i) ==
    /\ processes[i].pc = "loop"
    /\ processes[i].signal
    /\ processes' = [processes EXCEPT ![i].signal = FALSE, ![i].pc = "cleanup.existsSync"]
    /\ UNCHANGED lockFile
    /\ lockOnly

\* cleanup: if (fs.existsSync(LOCK_FILE))
CleanupExistsSync(i) ==
    /\ processes[i].pc = "cleanup.existsSync"
    /\ processes' = [processes EXCEPT ![i].pc =
                        IF lockFile.kind = "absent" THEN "cleanup.exit"
                        ELSE "cleanup.readFileSync"]
    /\ UNCHANGED lockFile
    /\ lockOnly

\* cleanup: JSON.parse(fs.readFileSync(...)); if (lockData.instanceId === this.instanceId)
CleanupReadFileSync(i) ==
    /\ processes[i].pc = "cleanup.readFileSync"
    /\ processes' = [processes EXCEPT ![i] =
          IF lockFile.kind # "lock" THEN [@ EXCEPT !.pc = "cleanup.exit"]
          ELSE IF lockFile.instanceId = i
          THEN [@ EXCEPT !.lockData = lockFile, !.pc = "cleanup.unlinkSync"]
          ELSE [@ EXCEPT !.pc = "cleanup.exit"]]
    /\ UNCHANGED lockFile
    /\ lockOnly

\* cleanup: fs.unlinkSync(LOCK_FILE)
CleanupUnlinkSync(i) ==
    /\ processes[i].pc = "cleanup.unlinkSync"
    /\ processes' = [processes EXCEPT ![i].pc = "cleanup.exit", ![i].lockData = NoFile,
                        ![i].removed = IF lockFile.kind = "absent" THEN @ ELSE lockFile]
    /\ lockFile' = NoFile
    /\ lockOnly

\* cleanup: process.exit(0)
CleanupExit(i) ==
    /\ processes[i].pc = "cleanup.exit"
    /\ processes' = [processes EXCEPT ![i] = processExit(@, 0)]
    /\ UNCHANGED lockFile
    /\ lockOnly

\* a step the instance takes by itself
Step(i) ==
    \/ ExistsSync(i) \/ ReadFileSync(i) \/ KillZero(i) \/ KillTerm(i) \/ CreateLockFile(i)
    \/ ExitOne(i) \/ TimerFires(i) \/ OnSignal(i)
    \/ CleanupExistsSync(i) \/ CleanupReadFileSync(i) \/ CleanupUnlinkSync(i) \/ CleanupExit(i)

NextLock == \E i \in Instances : Launch(i) \/ Interrupt(i) \/ Step(i)

SpecLock == InitLock /\ [][NextLock]_vars

\* a launched instance that has a step to take takes one
SpecLockFair == SpecLock /\ \A i \in Instances : WF_vars(Step(i))

\* LOCK_FILE records the pid and the instanceId of instance i
RecordsInstance(i) == lockFile.kind = "lock" /\ lockFile.pid = i /\ lockFile.instanceId = i

\* instance i found a live owner, can write, and nothing has told it to stop
Waiting(i) ==
    /\ processes[i].foundLive /\ processes[i].canWrite
    /\ processes[i].pc = "loop" /\ processes[i].timer /\ ~processes[i].signal

\* instance i was told to stop, or is stopping
Stopping(i) == processes[i].signal \/ processes[i].pc # "loop"

\* instance i finds the process recorded in the lock alive and signals it
Contends(i) ==
    /\ processes[i].pc = "killTerm" /\ processes'[i].pc # "killTerm"
    /\ Alive(processes[i].lockData.pid)

\* C23: when a starting instance finds a lock file whose recorded pid is alive, it
\* sends that pid a terminate signal, does not exit, leaves the lock file alone and
\* sets a timer; unless it is itself told to stop before the timer fires, the lock
\* file eventually records its pid and instanceId, however the old instance's
\* shutdown is interleaved.
LockTakenOver ==
    /\ [][\A i \in Instances :
            Contends(i) =>
                /\ processes'[processes[i].lockData.pid].signal
                /\ processes'[i].pc = "loop" /\ processes'[i].timer
                /\ processes'[i].returned = "true"
                /\ lockFile' = lockFile]_vars
    /\ \A i \in Instances : Waiting(i) ~> (RecordsInstance(i) \/ Stopping(i))

\* C23 witness: an instance that found a live owner holds the lock, and the old
\* owner has exited
NewInstanceHoldsLock ==
    \E i \in Instances :
        /\ processes[i].foundLive /\ RecordsInstance(i) /\ processes[i].pc = "loop"
        /\ \E j \in Instances \ {i} : processes[j].pc = "dead" /\ processes[j].writes = 1

\* C24 as claimed: each instance writes the lock file at most once, and no instance
\* ever deletes a lock file that records another instance's instanceId, however an
\* instance's cleanup is interleaved with another's lock creation.
RemovesOnlyOwnLock ==
    \A i \in Instances :
        /\ processes[i].writes <= 1
        /\ processes[i].removed.kind = "lock" => processes[i].removed.instanceId = i

\* C24, where it holds: each instance writes the lock file at most once, and unlinks
\* only after reading its own instanceId from the lock file
UnlinksAfterReadingOwn ==
    \A i \in Instances :
        /\ processes[i].writes <= 1
        /\ processes[i].pc = "cleanup.unlinkSync" => processes[i].lockData.instanceId = i

\* C24, where it fails: an instance has deleted a lock file that recorded another
\* instance, which still runs
ForeignLockRemoved ==
    \E i \in Instances :
        /\ processes[i].removed.kind = "lock" /\ processes[i].removed.instanceId # i
        /\ processes[processes[i].removed.pid].pc = "loop"
        /\ lockFile = NoFile

\* C25 as claimed: checkAndCreateLock returns false, and the process then exits with
\* code 1, only when reading, parsing or writing the lock file raised; the instance
\* then leaves the lock file as it is, so an unparseable lock file fails every
\* startup; in every other case checkAndCreateLock returns true.
FalseOnlyOnException ==
    /\ \A i \in Instances :
          /\ processes[i].returned = "false" <=> processes[i].threw # "none"
          /\ processes[i].returned = "false" =>
                /\ processes[i].writes = 0 /\ processes[i].removed = NoFile
                /\ processes[i].pc = "dead" => processes[i].exitCode = 1
          /\ processes[i].pc \in {"loop", "dead"} => processes[i].returned # "none"
    /\ lockFile = Unparseable => \A i \in Instances : processes[i].returned # "true"

\* C25, where it holds: the same without the exit code
FalseOnlyOnExceptionAnyCode ==
    /\ \A i \in Instances :
          /\ processes[i].returned = "false" <=> processes[i].threw # "none"
          /\ processes[i].returned = "false" =>
                processes[i].writes = 0 /\ processes[i].removed = NoFile
          /\ processes[i].pc \in {"loop", "dead"} => processes[i].returned # "none"
    /\ lockFile = Unparseable => \A i \in Instances : processes[i].returned # "true"

\* C25, where it fails: startup failed on an unparseable lock file and the process
\* has ended with code 0
FailedStartupExitsZero ==
    \E i \in Instances :
        /\ processes[i].threw = "parse" /\ processes[i].pc = "dead"
        /\ processes[i].exitCode = 0 /\ lockFile = Unparseable

(***************************************************************************)
(* updateRepository: the calls it makes                                    *)
(***************************************************************************)
\* updateRepository has settled, after all its calls succeeded
RepositoryUpdated ==
    /\ Done /\ tool = "updateRepository"
    /\ FailedCalls = {}

\* the names replaceAllTopics answered with
NamesReturned == Get(calls[1].data, "names")

\* the answer has one topics line, and it lists the names replaceAllTopics returned
ShowsNamesReturned ==
    /\ Shows(AnswerText, "topics: ", JoinStr(NamesReturned.v, <<", ">>) \o <<"\n">>)
    /\ Cardinality({i \in DOMAIN AnswerText : AnswerText[i] = "topics: "}) = 1

\* C26: in updateRepository, when topics is given and replaceAllTopics succeeds,
\* the calls are exactly replaceAllTopics then repos.get if no other field is
\* given, and exactly replaceAllTopics then repos.update otherwise; in both cases
\* the topics shown in the result are the names replaceAllTopics returned. When
\* topics is not given, the only call is repos.update.
TopicsThenGetOrUpdate ==
    (Done /\ tool = "updateRepository") =>
        /\ params.topics = Undef => ApisCalled = <<"repos.update">>
        /\ (params.topics # Undef /\ calls[1].ok) =>
              /\ params.given = {} => ApisCalled = <<"repos.replaceAllTopics", "repos.get">>
              /\ params.given # {} => ApisCalled = <<"repos.replaceAllTopics", "repos.update">>
              /\ FailedCalls = {} => ShowsNamesReturned

\* C26 witness: only topics were given; replaceAllTopics and repos.get were called
\* and the answer lists the two names returned
TopicsOnlyUpdated ==
    /\ RepositoryUpdated /\ params.topics # Undef /\ params.given = {}
    /\ ApisCalled = <<"repos.replaceAllTopics", "repos.get">>
    /\ Len(NamesReturned.v) = 2
    /\ ShowsNamesReturned

(***************************************************************************)
(* getFileContent: a range of lines, and reading on by the tips            *)
(***************************************************************************)
\* the number of lines shown when endLine is not given
PageLines == DefaultSpan + 1

FileLengths == {1, 2, PageLines, PageLines + 1, 2 * PageLines, 2 * PageLines + MaxOver}

\* a file of n lines, line i reading i
FileLines(n) == [i \in 1..n |-> NumStr(i)]

FilePath == Str(<<"s", "/", "f">>)

StartLines == {Num(n) : n \in {-1, 0, 1, 2, PageLines, PageLines + 1, 2 * PageLines + 5}}

EndLines == {Undef} \cup {Num(n) : n \in {-1, 0, 1, 2, PageLines, 2 * PageLines + 5}}

\* the tool calls made so far: the parameters and the text answered
InitRead ==
    /\ pc = "ready"
    /\ data \in {Str(JoinLines(FileLines(n))) : n \in FileLengths}
    /\ type = ""
    /\ dataAfter = data
    /\ cleaned = Undef
    /\ cleanedRef = "none"
    /\ recleaned = Undef
    /\ formatted = Undef
    /\ errorLog = <<>>
    /\ raised = FALSE
    /\ tool = "getFileContent"
    /\ params \in {[BaseParams EXCEPT !.path = FilePath, !.startLine = startLine,
                                      !.endLine = endLine] :
                      startLine \in StartLines, endLine \in EndLines}
    /\ pending = NoCall
    /\ calls = <<>>
    /\ locals = EmptyFields
    /\ result = Undef
    /\ other = NoOther
    /\ NoProcesses

\* getFileContent answers for the file, from the decoded content on
ReadRange ==
    /\ pc = "ready"
    /\ formatted' = Str(decodedText(params, data.v))
    /\ calls' = Append(calls, [startLine |-> params.startLine, endLine |-> params.endLine,
                               text |-> decodedText(params, data.v)])
    /\ pc' = "read"
    /\ UNCHANGED lockVars
    /\ UNCHANGED <<data, type, dataAfter, cleaned, cleanedRef, recleaned, errorLog, raised,
                   tool, params, pending, locals, result, other>>

\* the line the answer tells the reader to go on from, if it does
TipsIn(text, n) ==
    {k \in 1..(n + 1) : Shows(text, "tip: use startLine: ", NumStr(k) \o <<" to read on">>)}

\* the reader follows the tip: the next call has startLine as told and no endLine
ReadOn ==
    /\ pc = "read"
    /\ \E k \in TipsIn(formatted.v, Len(SplitLines(data.v, <<>>))) :
          params' = [params EXCEPT !.startLine = Num(k), !.endLine = Undef]
    /\ pc' = "ready"
    /\ UNCHANGED lockVars
    /\ UNCHANGED <<data, type, dataAfter, cleaned, cleanedRef, recleaned, formatted, errorLog,
                   raised, tool, pending, calls, locals, result, other>>

NextRead == ReadRange \/ ReadOn

SpecRead == InitRead /\ [][NextRead]_vars

\* the text that shows lines a to b of the file at path
RangeAnswer(path, lines, a, b) ==
    <<"file: ">> \o ToStr(path) \o <<"\n", "showing lines ">> \o NumStr(a)
    \o <<" to ">> \o NumStr(b) \o <<" (of ">> \o NumStr(Len(lines)) \o <<" lines)", "\n\n">>
    \o (IF b < Len(lines)
        THEN <<"\n\n", "tip: use startLine: ">> \o NumStr(b + 1) \o <<" to read on">>
        ELSE <<>>)
    \o (IF a > 1
        THEN <<"\n", "tip: use startLine: ", "1", ", endLine: ">> \o NumStr(a - 1)
             \o <<" to see what comes before">>
        ELSE <<>>)
    \o JoinLines(SubSeq(lines, a, b))

\* the first lines the text may be reporting
StartsReported(text, n) ==
    {a \in 1..n : IsPrefix(<<"file: ">> \o ToStr(FilePath) \o <<"\n", "showing lines ">>
                           \o NumStr(a) \o <<" to ">>, text)}

\* the last lines the text may be reporting, a being the first
EndsReported(text, n, a) ==
    {b \in a..n : IsPrefix(<<"file: ">> \o ToStr(FilePath) \o <<"\n", "showing lines ">>
                           \o NumStr(a) \o <<" to ">> \o NumStr(b) \o <<" (of ">>, text)}

\* the text reports a range a..b within 1..n and holds exactly those lines; with
\* span, no more than PageLines of them
ShowsValidRange(text, lines, span) ==
    \E a \in StartsReported(text, Len(lines)) :
        \E b \in EndsReported(text, Len(lines), a) :
            /\ text = RangeAnswer(FilePath, lines, a, b)
            /\ span => b - a + 1 <= PageLines

\* C27 as claimed: in getFileContent with startLine given, for every integer
\* startLine and every optional integer endLine on a file of totalLines >= 1
\* lines, the reported range satisfies 1 <= validStartLine <= validEndLine <=
\* totalLines, the content is exactly those lines, and when endLine is not given
\* at most 200 lines are returned.
RangeWithinFile ==
    (pc = "read" /\ Len(calls) = 1) =>
        ShowsValidRange(formatted.v, SplitLines(data.v, <<>>), params.endLine = Undef)

\* C27, where it holds: the same when endLine is not given or is 0, or is no less
\* than the first line shown
RangeWithinFileWhenOrdered ==
    (/\ pc = "read" /\ Len(calls) = 1
     /\ \/ ~Truthy(params.endLine)
        \/ params.endLine.v >= Max(1, Min(params.startLine.v, Len(SplitLines(data.v, <<>>)))))
    => ShowsValidRange(formatted.v, SplitLines(data.v, <<>>), ~Truthy(params.endLine))

\* C27, where it fails: startLine 2 and endLine 1 on a file of two lines are
\* answered with "showing lines 2 to 1" and no line
RangeBackwards ==
    /\ pc = "read" /\ Len(calls) = 1
    /\ params.startLine = Num(2) /\ params.endLine = Num(1)
    /\ Shows(formatted.v, "showing lines ", <<"2", " to ", "1", " (of ", "2", " lines)">>)

\* the reader began at line 1 with no endLine
ReadFromTop ==
    /\ pc = "read"
    /\ calls[1].startLine = Num(1) /\ calls[1].endLine = Undef

\* ceil(n / PageLines)
PagesOf(n) == (n + PageLines - 1) \div PageLines

\* the k calls made answered with the first k pages of the file, each call
\* starting where the one before it ended, and a tip is there until the last page
PagesInTurn(lines, k) ==
    /\ k <= PagesOf(Len(lines))
    /\ \A j \in 1..k :
          /\ calls[j].startLine = Num(PageLines * (j - 1) + 1)
          /\ calls[j].text = RangeAnswer(FilePath, lines, PageLines * (j - 1) + 1,
                                         Min(PageLines * j, Len(lines)))
    /\ TipsIn(calls[k].text, Len(lines)) = {} <=> k = PagesOf(Len(lines))

\* C28: starting getFileContent at startLine = 1 with no endLine on a file of
\* L >= 1 lines and calling it again with startLine as the tip tells while there is
\* a tip, the calls return consecutive ranges with no gap and no overlap, which
\* together are lines 1..L, and the tip is gone after exactly ceil(L / 200) calls.
TipsCoverFileOnce ==
    ReadFromTop => PagesInTurn(SplitLines(data.v, <<>>), Len(calls))

\* C28 witness: a file of more than two pages was read from the top in three
\* calls, and the third answer has no tip
ReadInThreeCalls ==
    /\ ReadFromTop /\ Len(calls) = 3
    /\ TipsIn(formatted.v, 3 * PageLines) = {}
    /\ formatted.v = calls[3].text

(***************************************************************************)
(* mergePullRequest and listCommits: what the answer names                 *)
(***************************************************************************)
\* the tool settled after its one call succeeded
Answered(t) == Done /\ tool = t /\ FailedCalls = {}

\* C29 as claimed: for every successful mergePullRequest call the returned text
\* reports the merge outcome received from upstream: it contains the value of the
\* merged flag and the merge commit sha and message of the upstream response.
MergeOutcomeReported ==
    Answered("mergePullRequest") =>
        /\ Includes(AnswerText, ToStr(Get(calls[1].data, "merged")))
        /\ Includes(AnswerText, ToStr(Get(calls[1].data, "sha")))
        /\ Includes(AnswerText, ToStr(Get(calls[1].data, "message")))

\* C29, where it fails: a merge that succeeded is answered as a repository
\* without a name
MergeAnsweredAsRepository ==
    /\ Answered("mergePullRequest")
    /\ Get(calls[1].data, "merged") = Bool(TRUE)
    /\ IsPrefix(<<"repository: ", "undefined", "\n">>, AnswerText)
    /\ ~Includes(AnswerText, ToStr(Get(calls[1].data, "sha")))

\* the commits upstream returned
CommitsReturned == calls[1].data.v

\* C30 as claimed: for every successful listCommits call that returns N >= 1
\* commits, the returned text contains N numbered blocks in upstream order and
\* each block identifies its commit by the commit's sha; no block is titled with
\* an undefined name.
CommitsListedBySha ==
    (Answered("listCommits") /\ CommitsReturned # <<>>) =>
        /\ \A i \in DOMAIN CommitsReturned :
              /\ Includes(AnswerText, NumStr(i) \o <<". ">>)
              /\ Includes(AnswerText, ToStr(Get(CommitsReturned[i], "sha")))
        /\ ~Includes(AnswerText, <<"undefined">>)

\* C30, where it holds: the text has a numbered block for each commit
CommitsNumbered ==
    (Answered("listCommits") /\ CommitsReturned # <<>>) =>
        \A i \in DOMAIN CommitsReturned : Includes(AnswerText, NumStr(i) \o <<". ">>)

\* C30, where it fails: a commit is listed under the title "undefined" and its
\* sha is not in the text
CommitListedUnnamed ==
    /\ Answered("listCommits") /\ Len(CommitsReturned) = 1
    /\ Includes(AnswerText, <<"1", ". ", "undefined">>)
    /\ ~Includes(AnswerText, ToStr(Get(CommitsReturned[1], "sha")))

====
